---- MODULE Spec2Model ----
(***************************************************************************)
(* The two chat clients of docker/cagent's MultiTenant directory:          *)
(*   AuthAgentChat     (AuthAgentChat.py)  authentication, retry, SSE      *)
(*   CagentChatClient  (cagent_chat.py)    no authentication, iter_lines   *)
(* One process runs one client.  The remote service is the environment:    *)
(* it answers each request (\E over the answers) and emits the lines of a  *)
(* response body one by one until the transport closes or fails.           *)
(***************************************************************************)
EXTENDS Naturals, Sequences, FiniteSets, TLC

\* ------------------------------------------------------------------ bounds
\* Lines the server emits on one response body.
MaxStream == 3

\* --------------------------------------------------------------- constants
\* AuthAgentChat.send_message: max_retries = 3
max_retries == 3
\* How many entries of CagentChatClient's message history are followed.
MaxHistory == 4

None == "None"
AuthAgentChat == "AuthAgentChat"
CagentChatClient == "CagentChatClient"
Clients == {AuthAgentChat, CagentChatClient}

\* The server URL of this run, and another server whose record shares the file.
api_url == "https://api"
other_url == "https://other"
Tokens == {"t1", "t2"}
Users == {"alice", "bob"}
SessionIds == {"s1"}

\* ------------------------------------------------------------------ values
\* What a request can end in: an HTTP response, a timeout, another transport error.
Http(s) == [kind |-> "http", status |-> s]
Timeout == [kind |-> "timeout", status |-> 0]
ConnectionError == [kind |-> "error", status |-> 0]
SendStatuses == {200, 304, 401, 500}
SendOutcomes == {Http(s) : s \in SendStatuses} \cup {Timeout, ConnectionError}
\* The stream specification's requests are answered at once.
StreamOutcomes == {Http(200)}
\* The probe of _check_auth_enabled, and the other auxiliary requests.
ProbeOutcomes == {Http(200), Http(401), Http(403), Http(500), ConnectionError, Timeout}
\* The answers to GET /api/auth/me.
ValidateOutcomes == {Http(200), Http(204), Http(401), Http(500), ConnectionError, Timeout}
AuxOutcomes == {Http(200), Http(401), Http(500), ConnectionError}
\* The answers to the catalog request and, in the start-up specification, to the
\* session request: a 2xx other than 200, a 3xx that is not followed, a timeout too.
StartOutcomes == AuxOutcomes \cup {Http(201), Http(304), Timeout}
\* What the user may type as a password.
Passwords == {"short", "seven77", "eight888", "longenough", "long-enough"}

\* One line of the response body.  k: "blank" (a data line that is empty or one
\* space), "malformed" (not JSON), "nonobject" (JSON, but not an object), "json"
\* (a JSON object with its type, its text field (content, message or output, by
\* type) and its usage field; "" and "{}" are the values data.get defaults to when
\* the key is absent).
Blank == [k |-> "blank", type |-> "", content |-> "", usage |-> "{}"]
Malformed == [k |-> "malformed", type |-> "", content |-> "", usage |-> "{}"]
NonObject == [k |-> "nonobject", type |-> "", content |-> "", usage |-> "{}"]
Event(t) == [k |-> "json", type |-> t, content |-> "", usage |-> "{}"]
AgentChoice(c) == [k |-> "json", type |-> "agent_choice", content |-> c, usage |-> "{}"]
TokenUsage(u) == [k |-> "json", type |-> "token_usage", content |-> "", usage |-> u]

\* The lines the stream specification draws from.
Lines ==
  {Blank, Malformed, NonObject}
    \cup {AgentChoice(c) : c \in {"a", "b", ""}}
    \cup {TokenUsage(u) : u \in {"u1", "u2"}}
    \cup {Event(t) : t \in {"error", "stream_stopped", "tool_call"}}

\* The lines the whole-program specification draws from.
CoreLines == {AgentChoice("a"), Event("error")}

\* ----------------------------------------------------------- pure helpers
Last(s) == s[Len(s)]

\* An agent name: the text before its extensions, then the extensions in order
\* ("pirate.yml.yaml" is the stem "pirate" with <<".yml", ".yaml">>).
Name(stem, exts) == [stem |-> stem, exts |-> exts]

\* str.endswith(ext)
EndsWith(name, ext) == name.exts # <<>> /\ Last(name.exts) = ext

\* name + ext
Plus(name, ext) == Name(name.stem, Append(name.exts, ext))

\* str.replace('.yaml', ''): every ".yaml" is removed.
ReplaceYaml(name) == Name(name.stem, SelectSeq(name.exts, LAMBDA e : e # ".yaml"))

\* The agent arguments a user may give: no extension, ".yaml", ".yml".
AgentArgs == {Name("pirate", <<>>), Name("pirate", <<".yaml">>), Name("pirate", <<".yml">>)}

\* The catalogs GET /api/agents may return, as the names of their entries in order.
Catalogs ==
  { <<>>,
    <<Name("pirate", <<".yaml">>)>>,
    <<Name("pirate", <<>>)>>,
    <<Name("pirate", <<".yml">>), Name("haiku", <<".yaml">>)>>,
    <<Name("haiku", <<".yaml">>), Name("pirate", <<".yml", ".yaml">>)>>,
    <<Name("haiku", <<".yaml">>), Name("basic_agent", <<".yaml">>)>> }

\* Whether name is one of the names of a catalog.
InCatalog(name, agents) == \E i \in 1..Len(agents) : agents[i] = name

\* main: agent_yaml gets ".yaml" unless it ends in ".yaml" or in ".yml".
ResolvedYaml(arg) ==
  IF ~EndsWith(arg, ".yaml") /\ ~EndsWith(arg, ".yml") THEN Plus(arg, ".yaml") ELSE arg

\* Mutant of AgentCheck: the name is looked up as it is.
AgentCheckAsGiven(name) == name

\* verify_agent: agent_check is agent_yaml with ".yaml" appended unless it ends so.
AgentCheck(name) == IF ~EndsWith(name, ".yaml") THEN Plus(name, ".yaml") ELSE name

\* Mutant of VerifyAgentExists: only the name with ".yaml" appended is looked up.
VerifyAgentExistsYamlOnly(name, agents) == InCatalog(Plus(name, ".yaml"), agents)

\* CagentChatClient.verify_agent_exists: the name is among the catalog's names with
\* their ".yaml" removed, or the name with ".yaml" is among the catalog's names.
VerifyAgentExists(name, agents) ==
  \/ \E i \in 1..Len(agents) : ReplaceYaml(agents[i]) = name
  \/ InCatalog(Plus(name, ".yaml"), agents)

RECURSIVE Join(_)
\* ''.join(parts)
Join(parts) == IF parts = <<>> THEN "" ELSE Head(parts) \o Join(Tail(parts))

\* requests' Response.raise_for_status: HTTPError for a 4xx or 5xx status.
RaisesForStatus(status) == 400 <= status /\ status < 600

\* Mutant of Unauthorized: every error status counts as an expired credential.
UnauthorizedOrAnyError(status) == status >= 400

\* send_message: e.response.status_code == 401
Unauthorized(status) == status = 401

\* Mutant of RetryAllowed: one attempt more than max_retries.
RetryAllowedOnceMore(count) == count <= max_retries

\* Mutant of RetryAllowed: the loop gives up one attempt early.
RetryAllowedOnceLess(count) == count + 1 < max_retries

\* The while condition of the retry loop, and the test after a timeout.
RetryAllowed(count) == count < max_retries

\* Mutant of Headers: an Authorization header is sent whether or not a token is held.
HeadersAlways(tok) == "Bearer " \o tok

\* _headers: the Authorization header, when a token is held.
Headers(tok) == IF tok # None THEN "Bearer " \o tok ELSE None

\* Mutant of JsonLoads: a payload that is JSON but no object is refused too.
JsonLoadsObjectsOnly(line) == line.k = "json"

\* json.loads on the data of one line: does it return (TRUE) or raise
\* JSONDecodeError (FALSE).  An empty payload is no JSON either.
JsonLoads(line) == line.k \in {"json", "nonobject"}

\* cagent_chat.py skips an empty or one-space payload before json.loads;
\* sseclient hands AuthAgentChat the payload of every data line.
ReachesJsonLoads(c, line) == c = AuthAgentChat \/ line.k # "blank"

\* The line is parsed and its event enters the dispatch chain.
Decoded(c, line) == ReachesJsonLoads(c, line) /\ JsonLoads(line)

\* The accumulator of one send: the locals of send_message and what it printed.
\* ctl: "continue" (next event), "break" (leave the loop on an error event),
\* "raise" (an exception send_message does not catch).
Acc(fr, tu, disp, ctl) ==
  [full_response |-> fr, token_usage |-> tu, displayed |-> disp, ctl |-> ctl]

\* Mutant of AppendContent: the new part is put in front.
PrependContent(fr, content) == <<content>> \o fr

\* full_response.append(content)
AppendContent(fr, content) == Append(fr, content)

\* Mutant of RecordUsage: a usage already recorded is kept.
RecordUsageFirstWins(tu, usage) == IF tu \in {"{}", None} THEN usage ELSE tu

\* token_usage = data.get('usage', {})
RecordUsage(tu, usage) == usage

\* The end of AuthAgentChat.send_message: the token line, if a usage was recorded.
ShowTokens(tu, disp) == IF tu # "{}" THEN Append(disp, "[Tokens]") ELSE disp

\* run_chat after send_message returned ret: the response, or that none came.
ShowResponse(ret, disp) ==
  IF ret # <<>> THEN Append(disp, ret[1]) ELSE Append(disp, "[No response received]")

\* CagentChatClient.send_message prints the token line when the usage has a cost;
\* of the usages drawn here "u1" has one.
HasCost(tu) == tu = "u1"

\* AuthAgentChat.send_message, the body of the event loop for a parsed payload
\* (show_progress is True at every call site).
DispatchAuth(data, vb, acc) ==
  LET fr == acc.full_response
      tu == acc.token_usage
      d == acc.displayed
  IN  IF data.k = "nonobject"
        THEN \* data.get raises AttributeError: except Exception
             Acc(fr, tu, IF vb THEN Append(d, "[Error processing event]") ELSE d, "continue")
      ELSE IF data.type = "agent_choice"
        THEN IF data.content # ""
               THEN Acc(AppendContent(fr, data.content), tu, Append(d, data.content), "continue")
               ELSE Acc(fr, tu, d, "continue")
      ELSE IF data.type = "token_usage"
        THEN Acc(fr, RecordUsage(tu, data.usage), d, "continue")
      ELSE IF data.type = "error"
        THEN Acc(fr, tu, Append(d, "[Error]"), "break")
      ELSE IF data.type = "tool_call"
        THEN Acc(fr, tu, Append(d, "[Calling tool]"), "continue")
      ELSE IF data.type = "partial_tool_call" /\ vb
        THEN Acc(fr, tu, Append(d, "[Preparing tool]"), "continue")
      ELSE IF data.type = "tool_call_response"
        THEN Acc(fr, tu, Append(d, "[Tool completed]"), "continue")
      ELSE IF data.type = "agent_choice_reasoning"
        THEN Acc(fr, tu, IF data.content # "" THEN Append(d, "[Reasoning]") ELSE d, "continue")
      ELSE IF data.type = "warning"
        THEN Acc(fr, tu, IF data.content # "" THEN Append(d, "[Warning]") ELSE d, "continue")
      ELSE IF data.type = "shell"
        THEN Acc(fr, tu, IF data.content # "" /\ vb THEN Append(d, "[Shell output]") ELSE d, "continue")
      ELSE IF vb /\ data.type \notin {"stream_started", "stream_stopped", "user_message"}
        THEN Acc(fr, tu, Append(d, "[" \o data.type \o "]"), "continue")
      ELSE Acc(fr, tu, d, "continue")

\* Mutant of DispatchBasic: an error event is printed and the loop goes on.
DispatchBasicContinuesOnError(data, acc) ==
  LET fr == acc.full_response
      tu == acc.token_usage
      d == acc.displayed
  IN  IF data.k = "nonobject" THEN Acc(fr, tu, d, "raise")
      ELSE IF data.type = "agent_choice" THEN Acc(Append(fr, data.content), tu, d, "continue")
      ELSE IF data.type = "token_usage" THEN Acc(fr, RecordUsage(tu, data.usage), d, "continue")
      ELSE IF data.type = "error" THEN Acc(fr, tu, Append(d, "[Error]"), "continue")
      ELSE Acc(fr, tu, d, "continue")

\* CagentChatClient.send_message, the body of the line loop for a parsed payload.
DispatchBasic(data, acc) ==
  LET fr == acc.full_response
      tu == acc.token_usage
      d == acc.displayed
  IN  IF data.k = "nonobject"
        THEN \* data.get raises AttributeError, which nothing here catches
             Acc(fr, tu, d, "raise")
      ELSE IF data.type = "agent_choice"
        THEN Acc(AppendContent(fr, data.content), tu, d, "continue")
      ELSE IF data.type = "token_usage"
        THEN Acc(fr, RecordUsage(tu, data.usage), d, "continue")
      ELSE IF data.type = "error"
        THEN Acc(fr, tu, Append(d, "[Error]"), "break")
      ELSE Acc(fr, tu, d, "continue")

\* Mutant of ProcessLine: a line that does not parse ends the loop.
ProcessLineAbortsOnMalformed(c, vb, line, acc) ==
  IF ~Decoded(c, line)
    THEN Acc(acc.full_response, acc.token_usage, acc.displayed,
             IF line.k = "malformed" THEN "break" ELSE "continue")
  ELSE IF c = AuthAgentChat THEN DispatchAuth(line, vb, acc)
  ELSE DispatchBasic(line, acc)

\* Mutant of ProcessLine: an event that is neither an error nor a token_usage is
\* taken for text.
ProcessLineEveryEventIsText(c, vb, line, acc) ==
  IF ~Decoded(c, line)
    THEN Acc(acc.full_response, acc.token_usage,
             IF c = AuthAgentChat /\ vb THEN Append(acc.displayed, "[Raw event]")
                                        ELSE acc.displayed,
             "continue")
  ELSE IF line.k = "json" /\ line.type \notin {"agent_choice", "token_usage", "error"}
    THEN Acc(Append(acc.full_response, line.type), acc.token_usage, acc.displayed, "continue")
  ELSE IF c = AuthAgentChat THEN DispatchAuth(line, vb, acc)
  ELSE DispatchBasic(line, acc)

\* Mutant of ProcessLine: a stream_stopped event ends the loop (as the loop of
\* demo_auth.py does).
ProcessLineBreaksOnStreamStopped(c, vb, line, acc) ==
  IF ~Decoded(c, line)
    THEN Acc(acc.full_response, acc.token_usage,
             IF c = AuthAgentChat /\ vb THEN Append(acc.displayed, "[Raw event]")
                                        ELSE acc.displayed,
             "continue")
  ELSE IF line.k = "json" /\ line.type = "stream_stopped"
    THEN Acc(acc.full_response, acc.token_usage, acc.displayed, "break")
  ELSE IF c = AuthAgentChat THEN DispatchAuth(line, vb, acc)
  ELSE DispatchBasic(line, acc)

\* One line of the body through the decoder and the dispatcher.
ProcessLine(c, vb, line, acc) ==
  IF ~Decoded(c, line)
    THEN \* skipped; AuthAgentChat prints the raw event in verbose mode
         Acc(acc.full_response, acc.token_usage,
             IF c = AuthAgentChat /\ vb THEN Append(acc.displayed, "[Raw event]")
                                        ELSE acc.displayed,
             "continue")
  ELSE IF c = AuthAgentChat THEN DispatchAuth(line, vb, acc)
  ELSE DispatchBasic(line, acc)

\* Mutant of Without: the whole file is emptied.
WithoutAnyRecord(file, url) == <<>>

\* The credentials file without the record of url (del data[url]).
Without(file, url) == [u \in (DOMAIN file) \ {url} |-> file[u]]

\* Mutant of With: a record already stored for url is kept (setdefault).
WithKeepsExisting(file, url, tok, usr) ==
  [u \in (DOMAIN file) \cup {url} |->
     IF u \in DOMAIN file THEN file[u] ELSE [token |-> tok, user |-> usr]]

\* Mutant of With: the file is written from an empty dict, not from what it held.
WithAlone(file, url, tok, usr) ==
  [u \in {url} |-> [token |-> tok, user |-> usr]]

\* The credentials file with the record of url set (data[url] = {...}).
With(file, url, tok, usr) ==
  [u \in (DOMAIN file) \cup {url} |->
     IF u = url THEN [token |-> tok, user |-> usr] ELSE file[u]]

\* Mutant of LoadedToken: the token of whichever record comes first in the file.
LoadedTokenOfFirstRecord(file) ==
  IF DOMAIN file = {} THEN None
  ELSE file[CHOOSE u \in DOMAIN file : \A v \in DOMAIN file : u = v \/ u = other_url].token

\* _load_credentials: the token and the user stored for this server, if any.
LoadedToken(file) == IF api_url \in DOMAIN file THEN file[api_url].token ELSE None
LoadedUser(file) == IF api_url \in DOMAIN file THEN file[api_url].user ELSE None

\* One request as the server saw it and answered it: the endpoint, the
\* Authorization header, the answer, and the token and user of the answer's body.
Request(endpoint, auth, answer, reply_token, reply_user) ==
  [endpoint |-> endpoint, auth |-> auth, answer |-> answer,
   reply_token |-> reply_token, reply_user |-> reply_user]

\* The catalog request: its Authorization header, the answer, the catalog in it.
CatalogRequest(auth, answer, agents) ==
  [endpoint |-> "/api/agents", auth |-> auth, answer |-> answer, reply_agents |-> agents]

\* The session request: its Authorization header, the answer, the id in its body
\* (None for a body without one).
SessionRequest(auth, answer, id) ==
  [endpoint |-> "/api/sessions", auth |-> auth, answer |-> answer, reply_id |-> id]

\* verify_agent as an operation: the name looked up, the catalog requests, how it
\* ended, and the names it printed as available.
AgentOp(checked, requests, outcome, shown) ==
  [op |-> "verify_agent", input |-> <<checked>>, requests |-> requests,
   outcome |-> outcome, shown |-> shown]

\* One operation: its name, what the user typed for it, the requests it issued, how
\* it ended.
Op(name, input, requests, outcome) ==
  [op |-> name, input |-> input, requests |-> requests, outcome |-> outcome]

NoOp == Op("", <<>>, <<>>, "")

\* Mutant of Validated: every 2xx answer confirms the token.
ValidatedByAny2xx(r) == r.kind = "http" /\ 200 <= r.status /\ r.status < 300

\* Mutant of Validated: a validation that got no answer counts as passed.
ValidatedUnlessRejected(r) == r.kind # "http" \/ r.status = 200

\* authenticate: response.status_code == 200
Validated(r) == r.kind = "http" /\ r.status = 200

\* Mutant of RefreshedUser: the stored user is kept.
RefreshedUserKept(usr, profile) == usr

\* authenticate: self.user = response.json()
RefreshedUser(usr, profile) == profile

\* Mutant of PasswordsDiffer: the two passwords are not compared.
PasswordsNeverDiffer(password, confirm) == FALSE

\* register: password != confirm
PasswordsDiffer(password, confirm) == password # confirm

\* Mutant of TooShort: the limit is one character lower.
TooShortBelowSeven(password) == Len(password) < 7

\* register: len(password) < 8
TooShort(password) == Len(password) < 8

\* Mutant of CheckAuthEnabled: only a 401 counts.
CheckAuthEnabledOn401Only(r) == r.kind = "http" /\ r.status = 401

\* _check_auth_enabled: authentication is required exactly on a 401 or a 403.
CheckAuthEnabled(r) == r.kind = "http" /\ r.status \in {401, 403}

\* The credentials a successful login or registration may return.
Grants == {[token |-> "t1", user |-> "alice"], [token |-> "t2", user |-> "bob"]}

\* The credentials files a process may find when it starts.
InitialFiles ==
  LET mine == With(<<>>, api_url, "t1", "alice")
  IN  {<<>>, mine, With(<<>>, other_url, "t2", "bob"), With(mine, other_url, "t2", "bob")}

\* -------------------------------------------------------------------- state
VARIABLES
  client,           \* which client this process runs
  verbose,          \* --verbose
  no_auth,          \* --no-auth
  initial_prompt,   \* whether a prompt was given on the command line
  agent_arg,        \* the agent argument of the command line
  pc,               \* where the process is
  ended,            \* how the process ended ("" while it runs)
  auth_enabled,     \* self.auth_enabled
  token,            \* self.token
  user,             \* self.user
  creds_file,       \* ~/.cagent_auth.json: server URL -> {token, user}
  session_id,       \* self.session_id
  caller,           \* who called send_message: "initial" or "loop"
  retry_count,      \* send_message's retry_count
  attempts,         \* the initiating requests of this send, each with its outcome
  expired,          \* a 401 cleared the credentials and authenticate has not run since
  result,           \* how the last send_message ended ("" while none has)
  retval,           \* what the last send_message returned: <<>> is None, <<t>> the string t
  emitted,          \* the lines the server has put on the response body
  transport,        \* "none", "open", "closed", "broken"
  pos,              \* how many lines the client has taken off the body
  dispatched,       \* the parsed payloads handed to the dispatch chain
  full_response,    \* send_message's full_response
  token_usage,      \* send_message's token_usage
  displayed,        \* what this send printed
  messages_history, \* CagentChatClient's self.messages_history
  last_op,          \* the latest operation before the chat (probe, authenticate,
                    \* login, register, a choice, verify_agent, create_session):
                    \* what the user typed, the requests it issued with their
                    \* answers (the catalog request is not recorded), how it ended
  rmw_op,           \* two processes on one file: what each does to its record
  rmw_pc,           \* ... and where each is in _save_credentials / _clear_credentials
  data              \* ... and the dict each has read from the file

\* The two processes that share the credentials file in the race specification.
Procs == {"this", "peer"}

\* The server URL a process talks to, and the user it is logged in as.
UrlOf(p) == IF p = "this" THEN api_url ELSE other_url
UserOf(p) == IF p = "this" THEN "alice" ELSE "bob"

raceVars == <<rmw_op, rmw_pc, data>>

\* No second process: every save and clear of this process runs alone.
NoRace ==
  /\ rmw_op = [p \in Procs |-> [op |-> "none", token |-> None]]
  /\ rmw_pc = [p \in Procs |-> "done"]
  /\ data = [p \in Procs |-> <<>>]

\* What no step of the program run alone changes: its command line, and the
\* steps of the two processes of the race specification.
cfgVars == <<client, verbose, no_auth, initial_prompt, agent_arg, raceVars>>
authVars == <<auth_enabled, token, user, creds_file>>
sendVars == <<caller, retry_count, attempts, result, retval>>
streamVars == <<emitted, transport, pos, dispatched, full_response, token_usage, displayed>>
vars == <<cfgVars, pc, ended, authVars, session_id, expired, sendVars, streamVars,
          messages_history, last_op>>

\* self.agent_yaml of AuthAgentChat, as main passes it to the constructor.
agent_yaml == ResolvedYaml(agent_arg)

\* self.agent_name of CagentChatClient.
agent_name == ReplaceYaml(agent_arg)

\* The agent in the path of the message request.
SentAgent == IF client = AuthAgentChat THEN agent_yaml ELSE agent_name

\* Mutant of Passed: raise_for_status never raises and a failed request goes unnoticed.
PassedWhateverTheAnswer(r) == TRUE

\* Whether a request answered r went through raise_for_status.
Passed(r) == r.kind = "http" /\ ~RaisesForStatus(r.status)

\* get_available_agents: the catalog of the answer, [] after a failed request.
GetAvailableAgents(r, agents) == IF Passed(r) THEN agents ELSE <<>>

\* ----------------------------------------------------------- send_message
\* The locals of a send_message that starts.
FreshSend(who) ==
  /\ caller' = who
  /\ retry_count' = 0
  /\ attempts' = <<>>
  /\ result' = ""
  /\ retval' = <<>>
  /\ emitted' = <<>>
  /\ transport' = "none"
  /\ pos' = 0
  /\ dispatched' = <<>>
  /\ full_response' = <<>>
  /\ token_usage' = IF client = AuthAgentChat THEN "{}" ELSE None
  /\ displayed' = <<>>

\* One entry of messages_history.
Entry(role, content) == [role |-> role, content |-> content]

\* Mutant of Remembered: the answer is put into the history even when it is empty.
RememberedEvenIfEmpty(history, complete_response) ==
  Append(history, Entry("assistant", complete_response))

\* CagentChatClient.send_message: a non-empty answer is appended to the history.
Remembered(history, complete_response) ==
  IF complete_response # ""
    THEN Append(history, Entry("assistant", complete_response))
    ELSE history

\* send_message up to its first request: without a session it returns at once;
\* CagentChatClient puts the message into its history before the request.
BeginSend(who, sid) ==
  /\ FreshSend(who)
  /\ IF sid = None
       THEN pc' = "prompt" /\ UNCHANGED messages_history
       ELSE /\ pc' = "request"
            /\ messages_history' = IF client = CagentChatClient
                                     THEN Append(messages_history, Entry("user", "m"))
                                     ELSE messages_history

\* Mutant of ClearCredentials: the record stays in the credentials file.
ClearCredentialsInMemoryOnly ==
  /\ token' = None
  /\ user' = None
  /\ UNCHANGED creds_file

\* Mutant of ClearCredentials: the token stays in memory.
ClearCredentialsKeepsToken ==
  /\ UNCHANGED token
  /\ user' = None
  /\ creds_file' = Without(creds_file, api_url)

\* _clear_credentials: forget the token and the user, delete this server's record.
ClearCredentials ==
  /\ token' = None
  /\ user' = None
  /\ creds_file' = Without(creds_file, api_url)

\* Mutant of Return: a send ended by an error event ends the process.
ReturnFatalOnErrorEvent(how, ret) ==
  /\ result' = how
  /\ retval' = ret
  /\ IF how = "error_event"
       THEN pc' = "done" /\ ended' = "crashed"
       ELSE pc' = "prompt" /\ UNCHANGED ended

\* send_message returns ret to its caller; both callers go on to the prompt.
Return(how, ret) ==
  /\ result' = how
  /\ retval' = ret
  /\ pc' = "prompt"
  /\ UNCHANGED ended

\* An exception leaves send_message.  AuthAgentChat's loop catches it (except
\* Exception) and prompts again; raised under the initial prompt, or in
\* CagentChatClient, nothing catches it and the process ends.
Raise ==
  /\ result' = "raised"
  /\ retval' = <<>>
  /\ IF client = AuthAgentChat /\ caller = "loop"
       THEN pc' = "prompt" /\ UNCHANGED ended
       ELSE pc' = "done" /\ ended' = "crashed"

\* What one request of this send records: its outcome, the Authorization header
\* it carried, and whether a 401 had cleared the credentials before it.
Attempted(r) ==
  [kind |-> r.kind, status |-> r.status,
   auth |-> IF client = AuthAgentChat THEN Headers(token) ELSE None,
   after_expiry |-> expired, agent |-> SentAgent]

\* AuthAgentChat.send_message: one pass of the retry loop, the server answering r.
AttemptAuth(r) ==
  /\ client = AuthAgentChat
  /\ pc = "request"
  /\ RetryAllowed(retry_count)
  /\ attempts' = Append(attempts, Attempted(r))
  /\ IF r.kind = "timeout"
       THEN /\ retry_count' = retry_count + 1
            /\ IF RetryAllowed(retry_count + 1)
                 THEN UNCHANGED <<pc, ended, result, retval>>
                 ELSE Return("timed_out", <<>>)
            /\ UNCHANGED <<authVars, expired, transport>>
     ELSE IF r.kind = "http" /\ RaisesForStatus(r.status)
       THEN /\ IF Unauthorized(r.status)
                 THEN /\ ClearCredentials
                      /\ expired' = TRUE
                      /\ Return("auth_expired", <<>>)
                      /\ UNCHANGED auth_enabled
                 ELSE /\ Return("http_error", <<>>)
                      /\ UNCHANGED <<authVars, expired>>
            /\ UNCHANGED <<retry_count, transport>>
     ELSE IF r.kind = "error"
       THEN /\ Return("send_error", <<>>)
            /\ UNCHANGED <<authVars, expired, retry_count, transport>>
     ELSE \* break: the response body is the stream
          /\ pc' = "streaming"
          /\ transport' = "open"
          /\ UNCHANGED <<ended, result, retval, authVars, expired, retry_count>>
  /\ UNCHANGED <<cfgVars, messages_history, last_op, session_id, caller>>
  /\ UNCHANGED <<emitted, pos, dispatched, full_response, token_usage, displayed>>

\* CagentChatClient.send_message: its one request (no timeout is set, so none is
\* raised); every RequestException, an HTTP error included, returns None.
AttemptBasic(r) ==
  /\ client = CagentChatClient
  /\ pc = "request"
  /\ r.kind # "timeout"
  /\ attempts' = Append(attempts, Attempted(r))
  /\ IF r.kind = "error" \/ RaisesForStatus(r.status)
       THEN /\ Return("send_error", <<>>)
            /\ displayed' = ShowResponse(<<>>, Append(displayed, "[Error sending message]"))
            /\ UNCHANGED transport
       ELSE /\ pc' = "streaming"
            /\ transport' = "open"
            /\ UNCHANGED <<ended, result, retval, displayed>>
  /\ UNCHANGED <<cfgVars, messages_history, last_op, authVars, session_id, expired, caller, retry_count>>
  /\ UNCHANGED <<emitted, pos, dispatched, full_response, token_usage>>

\* ------------------------------------------------------ the response body
\* The server puts one more line on the body.
ServerEmit(L) ==
  /\ pc = "streaming"
  /\ transport = "open"
  /\ Len(emitted) < MaxStream
  /\ \E line \in L : emitted' = Append(emitted, line)
  /\ UNCHANGED <<cfgVars, messages_history, last_op, pc, ended, authVars, session_id, expired, sendVars>>
  /\ UNCHANGED <<transport, pos, dispatched, full_response, token_usage, displayed>>

\* The server ends the body: the transport closes.
ServerClose ==
  /\ pc = "streaming"
  /\ transport = "open"
  /\ transport' = "closed"
  /\ UNCHANGED <<cfgVars, messages_history, last_op, pc, ended, authVars, session_id, expired, sendVars>>
  /\ UNCHANGED <<emitted, pos, dispatched, full_response, token_usage, displayed>>

\* The connection fails while the body is being read.
TransportFails ==
  /\ pc = "streaming"
  /\ transport = "open"
  /\ transport' = "broken"
  /\ UNCHANGED <<cfgVars, messages_history, last_op, pc, ended, authVars, session_id, expired, sendVars>>
  /\ UNCHANGED <<emitted, pos, dispatched, full_response, token_usage, displayed>>

\* The loop takes the next line off the body and runs its body on it.
ConsumeLine ==
  /\ pc = "streaming"
  /\ pos < Len(emitted)
  /\ LET line == emitted[pos + 1]
         acc == ProcessLine(client, verbose, line,
                            Acc(full_response, token_usage, displayed, "continue"))
     IN  /\ pos' = pos + 1
         /\ dispatched' = IF Decoded(client, line) THEN Append(dispatched, line)
                                                   ELSE dispatched
         /\ full_response' = acc.full_response
         /\ token_usage' = acc.token_usage
         /\ IF acc.ctl = "continue"
              THEN /\ displayed' = acc.displayed
                   /\ UNCHANGED <<pc, ended, result, retval>>
            ELSE IF acc.ctl = "raise"
              THEN /\ displayed' = acc.displayed
                   /\ Raise
            ELSE \* an error event: AuthAgentChat breaks and falls to the end of
                 \* send_message, CagentChatClient returns None
                 /\ displayed' = IF client = AuthAgentChat
                                   THEN ShowTokens(acc.token_usage, acc.displayed)
                                   ELSE ShowResponse(<<>>, acc.displayed)
                 /\ Return("error_event", <<>>)
  /\ UNCHANGED <<cfgVars, messages_history, last_op, authVars, session_id, expired, caller, retry_count, attempts>>
  /\ UNCHANGED <<emitted, transport>>

\* Mutant of EndOfStream: the loop ends only once a stream_stopped event has come.
EndOfStreamAfterStreamStopped ==
  /\ pc = "streaming"
  /\ pos = Len(emitted)
  /\ transport = "closed"
  /\ \E i \in 1..Len(dispatched) : dispatched[i].type = "stream_stopped"
  /\ IF client = AuthAgentChat
       THEN /\ Return("completed", <<>>)
            /\ displayed' = ShowTokens(token_usage, displayed)
            /\ UNCHANGED messages_history
       ELSE LET complete_response == Join(full_response)
                ret == IF complete_response # "" THEN <<complete_response>> ELSE <<>>
            IN  /\ Return("completed", ret)
                /\ messages_history' = Remembered(messages_history, complete_response)
                /\ displayed' =
                     ShowResponse(ret, IF ret # <<>> /\ token_usage # None /\ HasCost(token_usage)
                                         THEN Append(displayed, "[Tokens]")
                                         ELSE displayed)
  /\ UNCHANGED <<cfgVars, last_op, authVars, session_id, expired, caller, retry_count, attempts>>
  /\ UNCHANGED <<emitted, transport, pos, dispatched, full_response, token_usage>>

\* The transport has closed and every line is consumed: the loop ends and
\* send_message finishes.  AuthAgentChat returns nothing; CagentChatClient returns
\* the joined text, or None when it is empty (run_chat prints what it returns).
EndOfStream ==
  /\ pc = "streaming"
  /\ pos = Len(emitted)
  /\ transport = "closed"
  /\ IF client = AuthAgentChat
       THEN /\ Return("completed", <<>>)
            /\ displayed' = ShowTokens(token_usage, displayed)
            /\ UNCHANGED messages_history
       ELSE LET complete_response == Join(full_response)
                ret == IF complete_response # "" THEN <<complete_response>> ELSE <<>>
            IN  /\ Return("completed", ret)
                /\ messages_history' = Remembered(messages_history, complete_response)
                /\ displayed' =
                     ShowResponse(ret, IF ret # <<>> /\ token_usage # None /\ HasCost(token_usage)
                                         THEN Append(displayed, "[Tokens]")
                                         ELSE displayed)
  /\ UNCHANGED <<cfgVars, last_op, authVars, session_id, expired, caller, retry_count, attempts>>
  /\ UNCHANGED <<emitted, transport, pos, dispatched, full_response, token_usage>>

\* The transport has failed and every delivered line is consumed: reading the body
\* raises.  CagentChatClient catches it (RequestException) and returns None;
\* AuthAgentChat.send_message does not catch it.
StreamRaises ==
  /\ pc = "streaming"
  /\ pos = Len(emitted)
  /\ transport = "broken"
  /\ IF client = CagentChatClient
       THEN /\ Return("send_error", <<>>)
            /\ displayed' = ShowResponse(<<>>, Append(displayed, "[Error sending message]"))
       ELSE /\ Raise
            /\ UNCHANGED displayed
  /\ UNCHANGED <<cfgVars, messages_history, last_op, authVars, session_id, expired, caller, retry_count, attempts>>
  /\ UNCHANGED <<emitted, transport, pos, dispatched, full_response, token_usage>>

\* ------------------------------------------------------- the prompt loop
\* Mutant of UserMessage: input is read, and sent, while a send is streaming.
UserMessageWhileStreaming ==
  /\ pc \in {"prompt", "streaming"}
  /\ client = CagentChatClient => Len(messages_history) + 2 <= MaxHistory
  /\ BeginSend("loop", session_id)
  /\ UNCHANGED <<cfgVars, last_op, ended, authVars, session_id, expired>>

\* The user types a message at the prompt: send_message(user_input).  The history
\* of CagentChatClient is followed up to MaxHistory entries.
UserMessage ==
  /\ pc = "prompt"
  /\ client = CagentChatClient => Len(messages_history) + 2 <= MaxHistory
  /\ BeginSend("loop", session_id)
  /\ UNCHANGED <<cfgVars, last_op, ended, authVars, session_id, expired>>

\* ------------------------------------------------- the stream specification
\* A client at its prompt with a session, as create_session leaves it;
\* CagentChatClient after one exchange, with room in its history for one more.
InitStream ==
  /\ client \in Clients
  /\ verbose \in (IF client = AuthAgentChat THEN BOOLEAN ELSE {FALSE})
  /\ no_auth = FALSE
  /\ initial_prompt = FALSE
  /\ agent_arg = Name("pirate", <<>>)
  /\ pc = "prompt"
  /\ ended = ""
  /\ auth_enabled = (client = AuthAgentChat)
  /\ token = (IF client = AuthAgentChat THEN "t1" ELSE None)
  /\ user = (IF client = AuthAgentChat THEN "alice" ELSE None)
  /\ creds_file = (IF client = AuthAgentChat
                     THEN With(<<>>, api_url, "t1", "alice")
                     ELSE <<>>)
  /\ session_id = "s1"
  /\ expired = FALSE
  /\ caller = "loop"
  /\ retry_count = 0
  /\ attempts = <<>>
  /\ result = ""
  /\ retval = <<>>
  /\ emitted = <<>>
  /\ transport = "none"
  /\ pos = 0
  /\ dispatched = <<>>
  /\ full_response = <<>>
  /\ token_usage = None
  /\ displayed = <<>>
  /\ messages_history = (IF client = CagentChatClient
                           THEN <<Entry("user", "m"), Entry("assistant", "a")>>
                           ELSE <<>>)
  /\ last_op = Op("create_session", <<>>,
                  <<SessionRequest(Headers(token), Http(200), "s1")>>, "created")
  /\ NoRace

NextStream ==
  \/ UserMessage
  \/ \E r \in StreamOutcomes : AttemptAuth(r)
  \/ \E r \in StreamOutcomes : AttemptBasic(r)
  \/ ServerEmit(Lines)
  \/ ServerClose
  \/ TransportFails
  \/ ConsumeLine
  \/ EndOfStream
  \/ StreamRaises

SpecStream == InitStream /\ [][NextStream]_vars

\* The same client with the progress of its own loop assumed: a line that has
\* arrived is read, and the end of the body (closed or failed) is noticed.  The
\* server and the user are under no obligation.
LiveLines == {AgentChoice("a"), Event("stream_stopped"), Event("error"), Malformed, NonObject}

NextLive ==
  \/ UserMessage
  \/ \E r \in StreamOutcomes : AttemptAuth(r)
  \/ \E r \in StreamOutcomes : AttemptBasic(r)
  \/ ServerEmit(LiveLines)
  \/ ServerClose
  \/ TransportFails
  \/ ConsumeLine
  \/ EndOfStream
  \/ StreamRaises

LiveStream ==
  /\ InitStream
  /\ [][NextLive]_vars
  /\ WF_vars(ConsumeLine)
  /\ WF_vars(EndOfStream)
  /\ WF_vars(StreamRaises)

\* ------------------------------------------------------------ AuthAgentChat
\* AuthAgentChat.__init__: the probe, sent without headers and answered by r, then
\* the credentials stored for this server.
Constructed(r) ==
  /\ auth_enabled' = CheckAuthEnabled(r)
  /\ token' = LoadedToken(creds_file)
  /\ user' = LoadedUser(creds_file)
  /\ last_op' = Op("probe", <<>>, <<Request("/api/sessions", None, r, None, None)>>,
                   IF CheckAuthEnabled(r) THEN "auth_required" ELSE "not_required")

\* AuthAgentChat.__init__, then main's choice between authenticate and verify_agent.
Construct(r) ==
  /\ client = AuthAgentChat
  /\ pc = "main"
  /\ Constructed(r)
  /\ pc' = IF ~no_auth /\ CheckAuthEnabled(r) THEN "authenticate" ELSE "verify_agent"
  /\ UNCHANGED <<cfgVars, messages_history, ended, creds_file, session_id, expired, sendVars, streamVars>>

\* AuthAgentChat.__init__ by a caller that calls authenticate whatever the probe said.
ConstructAndAuthenticate(r) ==
  /\ client = AuthAgentChat
  /\ pc = "main"
  /\ Constructed(r)
  /\ pc' = "authenticate"
  /\ UNCHANGED <<cfgVars, messages_history, ended, creds_file, session_id, expired, sendVars, streamVars>>

\* Mutant of AuthNotRequired: credentials no server asks for are dropped.
AuthNotRequiredDropsCredentials ==
  /\ pc = "authenticate"
  /\ ~auth_enabled
  /\ pc' = "verify_agent"
  /\ ClearCredentials
  /\ last_op' = Op("authenticate", <<>>, <<>>, "success")
  /\ UNCHANGED <<cfgVars, messages_history, ended, auth_enabled, session_id, expired, sendVars, streamVars>>

\* authenticate when the probe found no authentication: return True.
AuthNotRequired ==
  /\ pc = "authenticate"
  /\ ~auth_enabled
  /\ pc' = "verify_agent"
  /\ last_op' = Op("authenticate", <<>>, <<>>, "success")
  /\ UNCHANGED <<cfgVars, messages_history, ended, authVars, session_id, expired, sendVars, streamVars>>

\* authenticate with a token in memory: GET /api/auth/me answered by r.
AuthValidate(r, profile) ==
  /\ pc = "authenticate"
  /\ auth_enabled
  /\ token # None
  /\ IF Validated(r)
       THEN /\ user' = RefreshedUser(user, profile)
            /\ pc' = "verify_agent"
            /\ UNCHANGED <<token, creds_file>>
     ELSE IF r.kind = "http"
       THEN /\ ClearCredentials
            /\ pc' = "choice"
     ELSE /\ pc' = "choice"
          /\ UNCHANGED <<token, user, creds_file>>
  /\ last_op' = Op("authenticate", <<>>,
                   <<Request("/api/auth/me", Headers(token), r, None,
                             IF r.kind = "http" /\ r.status = 200 THEN profile ELSE None)>>,
                   IF Validated(r) THEN "success" ELSE "choice")
  /\ expired' = FALSE
  /\ UNCHANGED <<cfgVars, messages_history, ended, auth_enabled, session_id, sendVars, streamVars>>

\* authenticate without a token: straight to the choice loop.
AuthNoToken ==
  /\ pc = "authenticate"
  /\ auth_enabled
  /\ token = None
  /\ pc' = "choice"
  /\ last_op' = Op("authenticate", <<>>, <<>>, "choice")
  /\ expired' = FALSE
  /\ UNCHANGED <<cfgVars, messages_history, ended, authVars, session_id, sendVars, streamVars>>

\* Mutant of Granted: the credentials are kept in memory only.
GrantedNotSaved(grant) ==
  /\ token' = grant.token
  /\ user' = grant.user
  /\ UNCHANGED creds_file
  /\ pc' = "verify_agent"

\* login and register, once the request is answered 200 with grant.
Granted(grant) ==
  /\ token' = grant.token
  /\ user' = grant.user
  /\ creds_file' = With(creds_file, api_url, grant.token, grant.user)
  /\ pc' = "verify_agent"

\* The request of login or register as the server answered it.
Posted(endpoint, r, grant) ==
  IF r.kind = "http" /\ r.status = 200
    THEN Request(endpoint, None, r, grant.token, grant.user)
    ELSE Request(endpoint, None, r, None, None)

\* How a login or register whose request was answered by r ends.
Answered(r) ==
  IF r.kind # "http" THEN "error"
  ELSE IF r.status = 200 THEN "success"
  ELSE "rejected"

\* Choice 1: login, POST /api/auth/login answered by r.
Login(password, r, grant) ==
  /\ pc = "choice"
  /\ IF r.kind = "http" /\ r.status = 200
       THEN Granted(grant)
       ELSE UNCHANGED <<pc, token, user, creds_file>>
  /\ last_op' = Op("login", <<password>>, <<Posted("/api/auth/login", r, grant)>>, Answered(r))
  /\ UNCHANGED <<cfgVars, messages_history, ended, auth_enabled, session_id, expired, sendVars, streamVars>>

\* Choice 2: register; the passwords are checked before the request is sent.
Register(password, confirm, r, grant) ==
  /\ pc = "choice"
  /\ IF PasswordsDiffer(password, confirm)
       THEN /\ UNCHANGED <<pc, token, user, creds_file>>
            /\ last_op' = Op("register", <<password, confirm>>, <<>>, "PasswordMismatch")
     ELSE IF TooShort(password)
       THEN /\ UNCHANGED <<pc, token, user, creds_file>>
            /\ last_op' = Op("register", <<password, confirm>>, <<>>, "WeakPassword")
     ELSE /\ IF r.kind = "http" /\ r.status = 200
               THEN Granted(grant)
               ELSE UNCHANGED <<pc, token, user, creds_file>>
          /\ last_op' = Op("register", <<password, confirm>>,
                           <<Posted("/api/auth/register", r, grant)>>, Answered(r))
  /\ UNCHANGED <<cfgVars, messages_history, ended, auth_enabled, session_id, expired, sendVars, streamVars>>

\* Choice 3: authenticate returns False and main returns.
ChoiceExit ==
  /\ pc = "choice"
  /\ pc' = "done"
  /\ ended' = "auth_failed"
  /\ last_op' = Op("choice", <<"3">>, <<>>, "aborted")
  /\ UNCHANGED <<cfgVars, messages_history, authVars, session_id, expired, sendVars, streamVars>>

\* Mutant of ChoiceInvalid: an unknown choice is taken for the exit.
ChoiceInvalidReturns ==
  /\ pc = "choice"
  /\ pc' = "done"
  /\ ended' = "auth_failed"
  /\ last_op' = Op("choice", <<"?">>, <<>>, "invalid")
  /\ UNCHANGED <<cfgVars, messages_history, authVars, session_id, expired, sendVars, streamVars>>

\* Any other choice: the prompt again.
ChoiceInvalid ==
  /\ pc = "choice"
  /\ last_op' = Op("choice", <<"?">>, <<>>, "invalid")
  /\ UNCHANGED <<cfgVars, messages_history, pc, ended, authVars, session_id, expired, sendVars, streamVars>>

\* ------------------------------------------------------------ both clients
\* The answers to a catalog request: the outcome and, when it passes
\* raise_for_status, the catalog of its body.
CatalogAnswers ==
  {a \in [r : StartOutcomes, agents : Catalogs] : Passed(a.r) \/ a.agents = <<>>}

\* verify_agent / verify_agent_exists with run_chat's report.  The catalog request
\* is answered by first; CagentChatClient, when it does not find the agent, asks
\* for the catalog again (answered by second) and prints that.  AuthAgentChat
\* prints the names it looked through, and none when the request raised.
VerifyAgent(first, second) ==
  /\ pc = "verify_agent"
  /\ LET found == IF client = AuthAgentChat
                    THEN Passed(first.r) /\ InCatalog(AgentCheck(agent_yaml), first.agents)
                    ELSE VerifyAgentExists(agent_name,
                                           GetAvailableAgents(first.r, first.agents))
         again == client = CagentChatClient /\ ~found
     IN  /\ again \/ second = first
         /\ IF found
              THEN pc' = "create_session" /\ UNCHANGED ended
              ELSE pc' = "done" /\ ended' = "no_agent"
         /\ last_op' =
              AgentOp(IF client = AuthAgentChat THEN AgentCheck(agent_yaml) ELSE agent_name,
                      IF again
                        THEN <<CatalogRequest(None, first.r, first.agents),
                               CatalogRequest(None, second.r, second.agents)>>
                        ELSE <<CatalogRequest(IF client = AuthAgentChat
                                                THEN Headers(token) ELSE None,
                                              first.r, first.agents)>>,
                      IF found THEN "found"
                      ELSE IF client = AuthAgentChat /\ ~Passed(first.r) THEN "error"
                      ELSE "not_found",
                      IF found THEN <<>>
                      ELSE IF client = AuthAgentChat THEN first.agents
                      ELSE GetAvailableAgents(second.r, second.agents))
  /\ UNCHANGED <<cfgVars, messages_history, authVars, session_id, expired, sendVars, streamVars>>

\* create_session, POST /api/sessions answered r with a body holding the id, or
\* holding none (id = None).  An answer that passes raise_for_status and holds an id
\* starts the chat, AuthAgentChat with the initial prompt when one was given.
\* session['id'] of a body without an id raises KeyError: AuthAgentChat catches it
\* and fails, CagentChatClient catches RequestException only and ends on it.
CreateSession(r, id) ==
  /\ pc = "create_session"
  /\ Passed(r) \/ id = None
  /\ IF Passed(r) /\ id # None
       THEN /\ session_id' = id
            /\ UNCHANGED ended
            /\ IF client = AuthAgentChat /\ initial_prompt
                 THEN BeginSend("initial", id)
                 ELSE pc' = "prompt" /\ UNCHANGED <<sendVars, streamVars, messages_history>>
       ELSE /\ pc' = "done"
            /\ ended' = IF Passed(r) /\ client = CagentChatClient
                           THEN "crashed" ELSE "no_session"
            /\ UNCHANGED <<session_id, sendVars, streamVars, messages_history>>
  /\ last_op' = Op("create_session", <<>>,
                   <<SessionRequest(IF client = AuthAgentChat THEN Headers(token) ELSE None,
                                    r, id)>>,
                   IF Passed(r) /\ id # None THEN "created" ELSE "failed")
  /\ UNCHANGED <<cfgVars, authVars, expired>>

\* /exit, quit, exit, q: the loop ends.
\* The unwinding of a KeyboardInterrupt, with the session forgotten on the way.
UnwindDropsSession(how) ==
  /\ pc' = "done"
  /\ ended' = how
  /\ session_id' = None
  /\ UNCHANGED authVars

\* The unwinding of a KeyboardInterrupt: no handler on its way writes the
\* credentials file or assigns token, user or session id.
Unwind(how) ==
  /\ pc' = "done"
  /\ ended' = how
  /\ UNCHANGED <<authVars, session_id>>

\* The user interrupts the process while send_message waits for the answer to
\* its request or reads the stream. KeyboardInterrupt is not an Exception, so
\* no handler of send_message catches it. The loop of AuthAgentChat catches it
\* and breaks; its initial prompt is sent before the loop's try, so there the
\* interrupt leaves interactive_chat and main uncaught. run_chat of
\* CagentChatClient catches it around its loop.
Interrupt ==
  /\ pc \in {"request", "streaming"}
  /\ result' = "interrupted"
  /\ retval' = <<>>
  /\ Unwind(IF client = AuthAgentChat /\ caller = "initial"
              THEN "keyboard_interrupt" ELSE "interrupted")
  /\ UNCHANGED <<cfgVars, messages_history, last_op, expired, caller, retry_count, attempts,
                 streamVars>>

\* main started with --logout: the credentials file is removed if it exists and
\* main returns before a client object is constructed.
LogoutFlag ==
  /\ client = AuthAgentChat
  /\ pc = "main"
  /\ creds_file' = <<>>
  /\ pc' = "done"
  /\ ended' = "logout_flag"
  /\ UNCHANGED <<cfgVars, messages_history, last_op, auth_enabled, token, user, session_id,
                 expired, sendVars, streamVars>>

UserExit ==
  /\ pc = "prompt"
  /\ pc' = "done"
  /\ ended' = "exit"
  /\ UNCHANGED <<cfgVars, messages_history, last_op, authVars, session_id, expired, sendVars, streamVars>>

\* /logout (AuthAgentChat): clear the credentials, leave the loop.
UserLogout ==
  /\ client = AuthAgentChat
  /\ pc = "prompt"
  /\ ClearCredentials
  /\ pc' = "done"
  /\ ended' = "logout"
  /\ UNCHANGED <<cfgVars, messages_history, last_op, auth_enabled, session_id, expired, sendVars, streamVars>>

\* /history, /summary, history, clear with the request and its answer left out:
\* shown, nothing kept.
UserShow ==
  /\ pc = "prompt"
  /\ UNCHANGED vars

\* The session fetch of /history and /summary: its Authorization header, its answer.
FetchRequest(auth, answer) ==
  [endpoint |-> "/api/sessions/{id}", auth |-> auth, answer |-> answer]

\* Mutant of AfterFetch: a fetch that failed ends the loop.
AfterFetchEndsOnFailure(r) == IF Passed(r) THEN "prompt" ELSE "done"

\* interactive_chat after get_session_history or show_session_summary: continue.
AfterFetch(r) == "prompt"

\* What a display command does to the state: last_op is its record, the loop goes
\* on as AfterFetch says, everything else is as it was.
DisplayCommand(op, r) ==
  /\ pc = "prompt"
  /\ last_op' = op
  /\ pc' = AfterFetch(r)
  /\ ended' = IF AfterFetch(r) = "prompt" THEN ended ELSE "crashed"
  /\ UNCHANGED <<cfgVars, messages_history, authVars, session_id, expired, sendVars, streamVars>>

\* /history: AuthAgentChat.get_session_history, its GET answered r.  Every exception
\* is caught and printed.
GetSessionHistory(r) ==
  /\ client = AuthAgentChat
  /\ IF session_id = None
       THEN DisplayCommand(Op("history", <<"/history">>, <<>>, "no_session"), Http(200))
       ELSE DisplayCommand(Op("history", <<"/history">>, <<FetchRequest(Headers(token), r)>>,
                         IF Passed(r) THEN "shown" ELSE "error_shown"), r)

\* /summary: AuthAgentChat.show_session_summary, its GET answered r.  Every
\* exception is caught, and printed only under --verbose.
ShowSessionSummary(r) ==
  /\ client = AuthAgentChat
  /\ IF session_id = None
       THEN DisplayCommand(Op("summary", <<"/summary">>, <<>>, "no_session"), Http(200))
       ELSE DisplayCommand(Op("summary", <<"/summary">>, <<FetchRequest(Headers(token), r)>>,
                         IF Passed(r) THEN "shown"
                         ELSE IF verbose THEN "error_shown" ELSE "silent"), r)

\* history: CagentChatClient.show_history prints messages_history; no request.
ShowHistory ==
  /\ client = CagentChatClient
  /\ DisplayCommand(Op("history", <<"history">>, <<>>, "shown"), Http(200))

\* --------------------------------------------------------------- the program
Start(args) ==
  /\ client \in Clients
  /\ agent_arg \in args
  /\ verbose \in (IF client = AuthAgentChat THEN BOOLEAN ELSE {FALSE})
  /\ no_auth \in (IF client = AuthAgentChat THEN BOOLEAN ELSE {FALSE})
  /\ initial_prompt \in (IF client = AuthAgentChat THEN BOOLEAN ELSE {FALSE})
  /\ pc = (IF client = AuthAgentChat THEN "main" ELSE "verify_agent")
  /\ ended = ""
  /\ auth_enabled = FALSE
  /\ token = None
  /\ user = None
  /\ creds_file \in (IF client = AuthAgentChat THEN InitialFiles ELSE {<<>>})
  /\ session_id = None
  /\ expired = FALSE
  /\ caller = "loop"
  /\ retry_count = 0
  /\ attempts = <<>>
  /\ result = ""
  /\ retval = <<>>
  /\ emitted = <<>>
  /\ transport = "none"
  /\ pos = 0
  /\ dispatched = <<>>
  /\ full_response = <<>>
  /\ token_usage = None
  /\ displayed = <<>>
  /\ messages_history = <<>>
  /\ last_op = NoOp
  /\ NoRace

\* The program started on the agent "pirate".
Init == Start({Name("pirate", <<>>)})

Next ==
  \/ \E r \in ProbeOutcomes : Construct(r)
  \/ \E r \in ValidateOutcomes, profile \in Users : AuthValidate(r, profile)
  \/ AuthNoToken
  \/ pc = "choice" /\ \E password \in Passwords, r \in AuxOutcomes, grant \in Grants :
       Login(password, r, grant)
  \/ pc = "choice" /\ \E password \in Passwords, confirm \in Passwords, r \in AuxOutcomes,
                          grant \in Grants :
       Register(password, confirm, r, grant)
  \/ ChoiceExit
  \/ ChoiceInvalid
  \/ pc = "verify_agent" /\ \E first, second \in CatalogAnswers : VerifyAgent(first, second)
  \/ \E r \in AuxOutcomes, id \in SessionIds \cup {None} : CreateSession(r, id)
  \/ UserMessage
  \/ UserExit
  \/ UserLogout
  \/ UserShow
  \/ \E r \in SendOutcomes : AttemptAuth(r)
  \/ \E r \in SendOutcomes : AttemptBasic(r)
  \/ ServerEmit(CoreLines)
  \/ ServerClose
  \/ TransportFails
  \/ ConsumeLine
  \/ EndOfStream
  \/ StreamRaises

Spec == Init /\ [][Next]_vars

\* The program with the --logout flag on its command line and a user who may
\* press Ctrl-C during a send.
NextCli ==
  \/ Next
  \/ Interrupt
  \/ LogoutFlag

SpecCli == Init /\ [][NextCli]_vars

\* ------------------------------------------------- the authenticate specification
\* An AuthAgentChat that is constructed and whose authenticate is then called,
\* whether or not the probe found authentication.
InitAuth == Init /\ client = AuthAgentChat

NextAuth ==
  \/ \E r \in ProbeOutcomes : ConstructAndAuthenticate(r)
  \/ AuthNotRequired
  \/ \E r \in ValidateOutcomes, profile \in Users : AuthValidate(r, profile)
  \/ AuthNoToken
  \/ pc = "choice" /\ \E password \in Passwords, r \in AuxOutcomes, grant \in Grants :
       Login(password, r, grant)
  \/ pc = "choice" /\ \E password \in Passwords, confirm \in Passwords, r \in AuxOutcomes,
                          grant \in Grants :
       Register(password, confirm, r, grant)
  \/ ChoiceExit
  \/ ChoiceInvalid

SpecAuth == InitAuth /\ [][NextAuth]_vars

\* ------------------------------------------------- the start-up specification
\* The program started on any of the agent arguments, the session request answered
\* by any of StartOutcomes, and a chat of plain text answers in which the display
\* commands are recorded with their requests.
InitAgent == Start(AgentArgs)

AgentLines == {AgentChoice("a")}

NextAgent ==
  \/ \E r \in ProbeOutcomes : Construct(r)
  \/ \E r \in ValidateOutcomes, profile \in Users : AuthValidate(r, profile)
  \/ AuthNoToken
  \/ pc = "choice" /\ \E password \in Passwords, r \in AuxOutcomes, grant \in Grants :
       Login(password, r, grant)
  \/ ChoiceExit
  \/ pc = "verify_agent" /\ \E first, second \in CatalogAnswers : VerifyAgent(first, second)
  \/ \E r \in StartOutcomes, id \in SessionIds \cup {None} : CreateSession(r, id)
  \/ UserMessage
  \/ UserExit
  \/ \E r \in AuxOutcomes : GetSessionHistory(r)
  \/ \E r \in AuxOutcomes : ShowSessionSummary(r)
  \/ ShowHistory
  \/ \E r \in StreamOutcomes \cup {Http(401)} : AttemptAuth(r)
  \/ \E r \in StreamOutcomes : AttemptBasic(r)
  \/ ServerEmit(AgentLines)
  \/ ServerClose
  \/ ConsumeLine
  \/ EndOfStream

SpecAgent == InitAgent /\ [][NextAgent]_vars

\* ------------------------------------------------- the race specification
\* Two AuthAgentChat processes of one user, logged in to different servers, each
\* saving or clearing its own record in ~/.cagent_auth.json. Each reads the file
\* into data, changes data[self.api_url] and writes data back; nothing orders
\* the steps of one process with those of the other.

\* What a process does to its record: save it with a token, or clear it.
RmwOps == {[op |-> "save", token |-> t] : t \in Tokens} \cup {[op |-> "clear", token |-> None]}

\* Mutant of Modified: the write takes the file as it is now, as under a lock.
ModifiedUnderLock(p, d) ==
  IF rmw_op[p].op = "save"
    THEN With(creds_file, UrlOf(p), rmw_op[p].token, UserOf(p))
    ELSE Without(creds_file, UrlOf(p))

\* data after "data[self.api_url] = {...}" or "del data[self.api_url]".
Modified(p, d) ==
  IF rmw_op[p].op = "save"
    THEN With(d, UrlOf(p), rmw_op[p].token, UserOf(p))
    ELSE Without(d, UrlOf(p))

InitRace ==
  /\ client = AuthAgentChat
  /\ verbose = FALSE
  /\ no_auth = FALSE
  /\ initial_prompt = FALSE
  /\ agent_arg = Name("pirate", <<>>)
  /\ pc = "credentials"
  /\ ended = ""
  /\ auth_enabled = TRUE
  /\ token = None
  /\ user = None
  /\ creds_file \in InitialFiles
  /\ session_id = None
  /\ expired = FALSE
  /\ caller = "loop"
  /\ retry_count = 0
  /\ attempts = <<>>
  /\ result = ""
  /\ retval = <<>>
  /\ emitted = <<>>
  /\ transport = "none"
  /\ pos = 0
  /\ dispatched = <<>>
  /\ full_response = <<>>
  /\ token_usage = None
  /\ displayed = <<>>
  /\ messages_history = <<>>
  /\ last_op = NoOp
  /\ rmw_op \in [Procs -> RmwOps]
  /\ rmw_pc = [p \in Procs |-> "read"]
  /\ data = [p \in Procs |-> <<>>]

\* What the steps of the two processes leave alone.
RaceFrame ==
  UNCHANGED <<client, verbose, no_auth, initial_prompt, agent_arg, pc, ended, auth_enabled,
              token, user, session_id, expired, sendVars, streamVars, messages_history,
              last_op, rmw_op>>

\* open(creds_file, 'r') and json.load: the process has the file's content (an
\* absent file is the empty dict).
ReadFile(p) ==
  /\ rmw_pc[p] = "read"
  /\ data' = [data EXCEPT ![p] = creds_file]
  /\ rmw_pc' = [rmw_pc EXCEPT ![p] = "write"]
  /\ UNCHANGED creds_file
  /\ RaceFrame

\* The process reads while the other has the file open for writing: open(..,'w')
\* has truncated it and json.dump has not finished, json.load raises, the
\* handler swallows the exception and nothing is written.
ReadTorn(p) ==
  /\ rmw_pc[p] = "read"
  /\ \E q \in Procs \ {p} : rmw_pc[q] = "write"
  /\ rmw_pc' = [rmw_pc EXCEPT ![p] = "failed"]
  /\ UNCHANGED <<creds_file, data>>
  /\ RaceFrame

\* open(creds_file, 'w') and json.dump(data): the file is what this process
\* read, with its own record changed.
WriteFile(p) ==
  /\ rmw_pc[p] = "write"
  /\ creds_file' = Modified(p, data[p])
  /\ rmw_pc' = [rmw_pc EXCEPT ![p] = "done"]
  /\ UNCHANGED data
  /\ RaceFrame

NextRace ==
  \/ \E p \in Procs : ReadFile(p)
  \/ \E p \in Procs : ReadTorn(p)
  \/ \E p \in Procs : WriteFile(p)

SpecRace == InitRace /\ [][NextRace]_vars

\* ================================================================== claims
\* What the claims speak of, in their own terms.
Parsable(line) == line.k \notin {"blank", "malformed"}
NotMalformed(line) == line.k # "malformed"
IsAgentChoice(line) == line.k = "json" /\ line.type = "agent_choice"
IsTokenUsage(line) == line.k = "json" /\ line.type = "token_usage"
IsError(line) == line.k = "json" /\ line.type = "error"
IsStreamStopped(line) == line.k = "json" /\ line.type = "stream_stopped"

\* The lines the client has taken off the body so far.
Consumed == SubSeq(emitted, 1, pos)

\* The contents of the agent_choice events of lines, in order, joined.
JoinedText(lines) ==
  LET choices == SelectSeq(lines, IsAgentChoice)
  IN  Join([i \in 1..Len(choices) |-> choices[i].content])

\* The send has ended after its request had been answered with a body.
SendEnded == result # "" /\ transport # "none"

RECURSIVE RunLines(_, _, _, _)
\* The loop of send_message run over lines from accumulator acc.
RunLines(c, vb, lines, acc) ==
  IF lines = <<>> THEN acc
  ELSE LET a == ProcessLine(c, vb, Head(lines), acc)
       IN  IF a.ctl # "continue" THEN a ELSE RunLines(c, vb, Tail(lines), a)

\* C1 as claimed: when a send has ended, the events handed to the dispatcher are
\* exactly the parsable payloads of the whole response stream, in emission order.
C1_AllParsableDispatched ==
  SendEnded => dispatched = SelectSeq(emitted, Parsable)

\* C1 amended: the events handed to the dispatcher are, in emission order, exactly
\* the parsable payloads of the lines consumed (none dropped, none reordered, only
\* blank and unparsable lines omitted); and a send stops consuming before the end of
\* the body only at an error event or, in CagentChatClient, at a payload that is
\* JSON but no object.
C1_ParsableOfConsumedInOrder ==
  /\ dispatched = SelectSeq(Consumed, Parsable)
  /\ (SendEnded /\ pos < Len(emitted)) =>
       /\ pos > 0
       /\ \/ IsError(emitted[pos])
          \/ client = CagentChatClient /\ emitted[pos].k = "nonobject"

\* C1 witness: a finished send whose body held an unparsable line and at least two
\* parsable payloads, all of them dispatched.
C1_Witness ==
  /\ result = "completed"
  /\ Len(dispatched) >= 2
  /\ dispatched[1] # dispatched[2]
  /\ \E i \in 1..Len(emitted) : emitted[i].k = "malformed"

\* C2 as claimed: a stream read to transport close without an error event makes
\* send_message return the pair (joined_text, usage_snapshot).
C2_ReturnsTextAndUsage ==
  result = "completed" => retval = <<JoinedText(emitted), token_usage>>

\* C2 amended: when a stream is read to transport close without an error event, the
\* text parts the send accumulated join to the concatenation of the contents of all
\* agent_choice events in arrival order; CagentChatClient returns that joined text
\* alone (None when it is empty) and AuthAgentChat returns nothing; neither returns
\* the usage snapshot.
C2_JoinedTextInArrivalOrder ==
  result = "completed" =>
    /\ Join(full_response) = JoinedText(emitted)
    /\ retval = IF client = CagentChatClient /\ JoinedText(emitted) # ""
                  THEN <<JoinedText(emitted)>>
                  ELSE <<>>

\* C2 witness: events "a", "b", then stream_stopped, read to the close: "ab".
C2_Witness ==
  /\ result = "completed"
  /\ emitted = <<AgentChoice("a"), AgentChoice("b"), Event("stream_stopped")>>
  /\ Join(full_response) = "ab"
  /\ client = CagentChatClient
  /\ retval = <<"ab">>

\* C3: a malformed line never aborts the stream.  The text and usage accumulated
\* over the lines consumed are those of the same lines with the malformed ones
\* removed; a send never ends at a malformed line (only the end of the transport
\* ends it there); and a malformed line followed by a token_usage event leaves the
\* usage snapshot set to that event's usage.
C3_MalformedNeverAborts ==
  LET start == Acc(<<>>, IF client = AuthAgentChat THEN "{}" ELSE None, <<>>, "continue")
      clean == RunLines(client, verbose, SelectSeq(Consumed, NotMalformed), start)
  IN  /\ transport # "none" =>
           /\ full_response = clean.full_response
           /\ token_usage = clean.token_usage
           /\ dispatched = SelectSeq(SelectSeq(Consumed, NotMalformed), Parsable)
      /\ (SendEnded /\ pos > 0 /\ emitted[pos].k = "malformed") =>
           /\ pos = Len(emitted)
           /\ transport \in {"closed", "broken"}
      /\ (pos >= 2 /\ emitted[pos - 1].k = "malformed" /\ IsTokenUsage(emitted[pos])) =>
           /\ token_usage = emitted[pos].usage
           /\ Last(dispatched) = emitted[pos]

\* C3 witness: one malformed line, then a token_usage event whose usage is recorded.
C3_Witness ==
  /\ result = "completed"
  /\ emitted = <<Malformed, TokenUsage("u1")>>
  /\ token_usage = "u1"

\* The dispatcher has received an error event.
ErrorReceived == dispatched # <<>> /\ IsError(Last(dispatched))

\* C4: once the dispatcher has received an error event the send is over and nothing
\* that follows the event is dispatched, appended to the text, recorded as usage or
\* displayed: the error is the last event dispatched, and while it is, the position
\* in the body, the text parts, the usage and the display do not change.
C4_ErrorStopsConsuming ==
  /\ [](ErrorReceived => pc # "streaming" /\ result = "error_event")
  /\ [](\A i \in 1..Len(dispatched) : IsError(dispatched[i]) => i = Len(dispatched))
  /\ [][(ErrorReceived /\ ErrorReceived') =>
          UNCHANGED <<pos, dispatched, full_response, token_usage, displayed>>]_vars

\* C4 witness: an error event was dispatched after some text, and lines that the
\* server had put on the body after it were left unread.
C4_Witness ==
  /\ ErrorReceived
  /\ full_response # <<>>
  /\ pos < Len(emitted)
  /\ IsAgentChoice(emitted[Len(emitted)])

\* An initiating request that was answered with a response the client streams.
Succeeded(a) == a.kind = "http" /\ ~RaisesForStatus(a.status)

\* C5: a send_message issues at most max_retries initiating requests, and every
\* request after the first follows one that timed out.
C5_AtMostMaxRetriesEachAfterTimeout ==
  /\ Len(attempts) <= max_retries
  /\ \A i \in 2..Len(attempts) : attempts[i - 1].kind = "timeout"

\* C5 witness: a send that made all max_retries requests, the last after two
\* timeouts.
C5_Witness ==
  /\ Len(attempts) = max_retries
  /\ attempts[1].kind = "timeout"
  /\ attempts[2].kind = "timeout"

\* C6: a send_message of AuthAgentChat whose first two requests time out has not
\* given up (it is about to issue the third); when the third succeeds the send has
\* made exactly 3 requests, has not ended as timed out, and reads the body of the
\* third response (it is in the event loop, or has left it through the loop).
C6_ThirdAttemptSucceeds ==
  LET twoTimeouts == /\ client = AuthAgentChat
                     /\ Len(attempts) >= 2
                     /\ attempts[1].kind = "timeout"
                     /\ attempts[2].kind = "timeout"
  IN  /\ (twoTimeouts /\ Len(attempts) = 2) => (pc = "request" /\ result = "")
      /\ (twoTimeouts /\ Len(attempts) >= 3 /\ Succeeded(attempts[3])) =>
            /\ Len(attempts) = 3
            /\ retry_count = 2
            /\ transport # "none"
            /\ \/ pc = "streaming" /\ result = ""
               \/ pc # "streaming" /\ result \in {"completed", "error_event", "raised"}

\* C6 witness: two timeouts, a 200, and the stream of the third response read to
\* its close.
C6_Witness ==
  /\ client = AuthAgentChat
  /\ Len(attempts) = 3
  /\ attempts[1].kind = "timeout"
  /\ attempts[2].kind = "timeout"
  /\ attempts[3] = Attempted(Http(200))
  /\ pos >= 1
  /\ result = "completed"

\* C7 as claimed: when the last initiating request of a send ended in a transport
\* error other than a timeout, or in an HTTP status outside 200..299, the send is
\* over: no further request, no body opened, no line consumed.
C7_NonSuccessAborts ==
  (/\ attempts # <<>>
   /\ \/ Last(attempts).kind = "error"
      \/ Last(attempts).kind = "http" /\ Last(attempts).status \notin 200..299)
  => /\ pc \in {"prompt", "done"}
     /\ result # ""
     /\ transport = "none"
     /\ pos = 0
     /\ dispatched = <<>>

\* C8: when a request of AuthAgentChat.send_message is answered 401, the send ends
\* as auth_expired with the token and the user empty, this server's record gone
\* from the credentials file (other servers' records kept), and no body opened, no
\* line consumed, no event dispatched.
C8_Unauthorized ==
  (/\ client = AuthAgentChat
   /\ attempts # <<>>
   /\ Last(attempts).kind = "http"
   /\ Last(attempts).status = 401)
  => /\ result = "auth_expired"
     /\ pc \in {"prompt", "done"}
     /\ token = None
     /\ user = None
     /\ api_url \notin DOMAIN creds_file
     /\ transport = "none"
     /\ pos = 0
     /\ dispatched = <<>>

\* C8 witness: a request that carried a token was answered 401 after a timeout; the
\* token is gone and the file keeps only the other server's record.
C8_Witness ==
  /\ Len(attempts) = 2
  /\ attempts[2].status = 401
  /\ attempts[2].auth = "Bearer t2"
  /\ token = None
  /\ DOMAIN creds_file = {other_url}

\* C9 as claimed: after a 401 has cleared the credentials, no request goes to the
\* session/agent endpoint before authenticate has run again.
C9_AuthenticateBeforeNextRequest ==
  \A i \in 1..Len(attempts) : ~attempts[i].after_expiry

\* C9 amended: after a 401 has cleared the credentials the interactive loop goes on
\* without running authenticate again (the process is at the prompt, in a send, or
\* over), the token and the user stay empty, and every further request to the
\* session/agent endpoint is sent without an Authorization header.
C9_NoReauthenticationInLoop ==
  /\ expired =>
       /\ pc \in {"prompt", "request", "streaming", "done"}
       /\ token = None
       /\ user = None
  /\ \A i \in 1..Len(attempts) : attempts[i].after_expiry => attempts[i].auth = None

\* C9 witness: after the 401 the user typed another message and its request, sent
\* without credentials, was answered with a stream.
C9_Witness ==
  /\ expired
  /\ attempts # <<>>
  /\ attempts[1].after_expiry
  /\ attempts[1].auth = None
  /\ pc = "streaming"

LastUsage(lines) ==
  LET usages == SelectSeq(lines, IsTokenUsage)
  IN  IF usages = <<>>
        THEN (IF client = AuthAgentChat THEN "{}" ELSE None)
        ELSE Last(usages).usage

\* C11: the usage snapshot of a send is the usage of the last token_usage event it
\* has received (last write wins), and is empty when it has received none; so it
\* is at the end of the stream.
C11_LastUsageWins ==
  /\ transport # "none" => token_usage = LastUsage(SelectSeq(Consumed, Parsable))
  /\ result = "completed" => token_usage = LastUsage(emitted)

\* C11 witness: a stream read to its close with two token_usage events of
\* different usage; the second is the snapshot.
C11_Witness ==
  /\ result = "completed"
  /\ Len(emitted) = 3
  /\ emitted[1] = TokenUsage("u1")
  /\ emitted[3] = TokenUsage("u2")
  /\ token_usage = "u2"

\* The event types that are progress notifications, and one unknown type.
ProgressTypes ==
  {"tool_call", "partial_tool_call", "tool_call_response", "warning", "shell",
   "agent_choice_reasoning", "some_unknown_type"}

\* C12: whatever the accumulator of a send holds, dispatching a tool_call,
\* partial_tool_call, tool_call_response, warning, shell, agent_choice_reasoning
\* or unknown-type event (with or without a text of its own) leaves the text parts
\* and the usage snapshot as they are and the loop goes on.
C12_ProgressEventsKeepTextAndUsage ==
  \A t \in ProgressTypes, c \in {"", "a"} :
    LET event == [Event(t) EXCEPT !.content = c]
        after == ProcessLine(client, verbose, event,
                             Acc(full_response, token_usage, displayed, "continue"))
    IN  /\ after.full_response = full_response
        /\ after.token_usage = token_usage
        /\ after.ctl = "continue"

\* C12 witness: a tool_call event was dispatched after a text part and a usage
\* had been accumulated, and both are still there.
C12_Witness ==
  /\ pos = 3
  /\ emitted[1] = AgentChoice("a")
  /\ emitted[2] = TokenUsage("u1")
  /\ emitted[3] = Event("tool_call")
  /\ dispatched = SubSeq(emitted, 1, 3)
  /\ full_response = <<"a">>
  /\ token_usage = "u1"

\* C13: an error event is a soft failure.  The step in which an error event ends a
\* send leaves the process at the prompt of the interactive loop with the session
\* id, the token, the user and the credentials file as they were; the process has
\* not ended; and the next user message starts a send on that same session, whose
\* request is about to be issued.
C13_ErrorEventIsSoftFailure ==
  /\ [][(result # "error_event" /\ result' = "error_event") =>
          /\ pc' = "prompt"
          /\ ended' = ""
          /\ session_id # None
          /\ UNCHANGED <<session_id, token, user, creds_file>>]_vars
  /\ [][(result = "error_event" /\ pc = "prompt" /\ result' = "") =>
          /\ pc' = "request"
          /\ attempts' = <<>>
          /\ UNCHANGED <<session_id, token, user, creds_file>>]_vars
  /\ [](result = "error_event" => ended # "crashed")

\* C13 witness: an error event ended the send of the initial prompt; the process is
\* at the prompt with its session and credentials.
C13_Witness ==
  /\ result = "error_event"
  /\ caller = "initial"
  /\ pc = "prompt"
  /\ session_id = "s1"
  /\ token = "t2"
  /\ api_url \in DOMAIN creds_file

\* The one request of the latest operation.
TheRequest == last_op.requests[1]

\* C14: the probe reports that authentication is required exactly when its request
\* was answered 401 or 403; a 200, any other status, a timeout and any other network
\* error report that it is not; and whatever the answer, the flow goes on (to
\* authenticate or to verify_agent) and the process has not ended.
C14_ProbeRequiresAuthOn401Or403 ==
  last_op.op = "probe" =>
    /\ Len(last_op.requests) = 1
    /\ auth_enabled = (TheRequest.answer \in {Http(401), Http(403)})
    /\ last_op.outcome = (IF TheRequest.answer \in {Http(401), Http(403)}
                            THEN "auth_required" ELSE "not_required")
    /\ pc = (IF auth_enabled /\ ~no_auth THEN "authenticate" ELSE "verify_agent")
    /\ ended = ""

\* C14 witness: a probe answered 403 found authentication required, and the flow
\* went on to authenticate.
C14_Witness ==
  /\ last_op.op = "probe"
  /\ TheRequest.answer = Http(403)
  /\ auth_enabled
  /\ pc = "authenticate"

\* C14 witness of the failure case: the probe failed with a network error, no
\* authentication is assumed, and the flow went on to verify_agent.
C14_WitnessProbeFailed ==
  /\ last_op.op = "probe"
  /\ TheRequest.answer = ConnectionError
  /\ ~auth_enabled
  /\ pc = "verify_agent"

\* C15: when the probe found no authentication, authenticate returns success in
\* one step in which no request is issued, the choice loop is not entered, and the
\* token, the user and the credentials file stay as they are.
C15_NotRequiredReturnsAtOnce ==
  [][(pc = "authenticate" /\ ~auth_enabled) =>
       /\ pc' = "verify_agent"
       /\ last_op' = Op("authenticate", <<>>, <<>>, "success")
       /\ UNCHANGED <<token, user, creds_file, auth_enabled, ended>>]_vars

\* C15 witness: authenticate has returned success without authentication being
\* required, the stored credential still in memory and in the file.
C15_Witness ==
  /\ ~auth_enabled
  /\ pc = "verify_agent"
  /\ last_op = Op("authenticate", <<>>, <<>>, "success")
  /\ token = "t1"
  /\ user = "alice"
  /\ api_url \in DOMAIN creds_file

\* C16: when authentication is required and the validation of the stored token is
\* answered 200, authenticate returns success in that step without entering the
\* choice loop, the user becomes the profile of the answer, and the token and the
\* credentials file are unchanged.
C16_ValidTokenSucceeds ==
  [][(/\ pc = "authenticate"
      /\ auth_enabled
      /\ last_op'.requests # <<>>
      /\ last_op'.requests[1].endpoint = "/api/auth/me"
      /\ last_op'.requests[1].answer = Http(200)) =>
       /\ token # None
       /\ pc' = "verify_agent"
       /\ last_op'.outcome = "success"
       /\ user' = last_op'.requests[1].reply_user
       /\ UNCHANGED <<token, creds_file>>]_vars

\* C16 witness: the stored token of alice was validated and the answer's profile,
\* bob, replaced the user; the token is the stored one.
C16_Witness ==
  /\ last_op.op = "authenticate"
  /\ last_op.outcome = "success"
  /\ last_op.requests # <<>>
  /\ TheRequest.auth = "Bearer t1"
  /\ user = "bob"
  /\ token = "t1"
  /\ creds_file[api_url].user = "alice"
  /\ pc = "verify_agent"

\* C17: when the validation of the stored token is answered with an HTTP status
\* other than 200, the choice loop starts with the credential invalidated: token
\* and user empty, no record for this server in the credentials file.
C17_RejectedTokenInvalidated ==
  (/\ last_op.op = "authenticate"
   /\ last_op.requests # <<>>
   /\ TheRequest.answer.kind = "http"
   /\ TheRequest.answer.status # 200)
  => /\ pc = "choice"
     /\ token = None
     /\ user = None
     /\ api_url \notin DOMAIN creds_file

\* C17 witness: a validation that carried the stored token was answered 204; the
\* choice loop starts, this server's record is gone and the other server's is kept.
C17_Witness ==
  /\ last_op.op = "authenticate"
  /\ last_op.requests # <<>>
  /\ TheRequest.answer = Http(204)
  /\ TheRequest.auth = "Bearer t1"
  /\ pc = "choice"
  /\ token = None
  /\ DOMAIN creds_file = {other_url}

\* C18: a step taken in the choice loop either stays in the loop, or leaves it by
\* a login or register that succeeded (authenticate returns success), or by the
\* choice to exit (authenticate fails, main returns); a login or register that
\* failed (rejected, transport error, PasswordMismatch, WeakPassword) and an
\* invalid choice stay in the loop with the process running.
C18_ChoiceLoopExits ==
  /\ [][pc = "choice" =>
          \/ pc' = "choice" /\ ended' = ""
          \/ /\ pc' = "verify_agent"
             /\ ended' = ""
             /\ last_op'.op \in {"login", "register"}
             /\ last_op'.outcome = "success"
          \/ /\ pc' = "done"
             /\ ended' = "auth_failed"
             /\ last_op' = Op("choice", <<"3">>, <<>>, "aborted")]_vars
  /\ [][(pc = "choice" /\ last_op'.outcome \notin {"success", "aborted"}) =>
          (pc' = "choice" /\ ended' = "")]_vars
  /\ [][(/\ pc = "choice"
          /\ last_op'.op \in {"login", "register"}
          /\ \/ last_op'.requests = <<>>
             \/ last_op'.requests[1].answer # Http(200)) =>
          (pc' = "choice" /\ ended' = "")]_vars

\* C18 witness: a register that failed with WeakPassword left the process in the
\* choice loop.
C18_Witness ==
  /\ pc = "choice"
  /\ ended = ""
  /\ last_op.op = "register"
  /\ last_op.outcome = "WeakPassword"

\* C19: every step in which authenticate returns success, probe having found
\* authentication required, ends with a token in memory and the same token in this
\* server's record of the credentials file; so does every login or register
\* answered 200.
C19_SuccessIsAuthenticated ==
  /\ [][(auth_enabled /\ pc \in {"authenticate", "choice"} /\ pc' = "verify_agent") =>
          /\ token' # None
          /\ api_url \in DOMAIN creds_file'
          /\ creds_file'[api_url].token = token']_vars
  /\ [][(/\ pc = "choice"
          /\ last_op'.op \in {"login", "register"}
          /\ last_op'.requests # <<>>
          /\ last_op'.requests[1].answer = Http(200)) =>
          /\ pc' = "verify_agent"
          /\ token' = last_op'.requests[1].reply_token
          /\ token' # None
          /\ api_url \in DOMAIN creds_file'
          /\ creds_file'[api_url].token = token']_vars

\* C19 witness: a login succeeded after the stored token t1 had been rejected; the
\* new token t2 is in memory and in the file.
C19_Witness ==
  /\ pc = "verify_agent"
  /\ auth_enabled
  /\ last_op.op = "login"
  /\ last_op.outcome = "success"
  /\ token = "t2"
  /\ api_url \in DOMAIN creds_file
  /\ creds_file[api_url].token = "t2"

\* C20: a register given a password and a confirmation that differ issues no
\* request and fails with PasswordMismatch, and the step leaves the token, the user
\* and the credentials file as they were (and the process in the choice loop).
C20_PasswordMismatch ==
  /\ []((last_op.op = "register" /\ last_op.input[1] # last_op.input[2]) =>
          /\ last_op.requests = <<>>
          /\ last_op.outcome = "PasswordMismatch")
  /\ [][(last_op'.op = "register" /\ last_op'.input[1] # last_op'.input[2]
          /\ last_op' # last_op) =>
          /\ UNCHANGED <<token, user, creds_file>>
          /\ pc' = "choice"]_vars

\* C20 witness: a register with two different passwords, both long enough, failed
\* with PasswordMismatch while a token was held.
C20_Witness ==
  /\ last_op = Op("register", <<"longenough", "long-enough">>, <<>>, "PasswordMismatch")
  /\ pc = "choice"
  /\ token = "t1"

\* C21 as claimed: a register or a login given a password shorter than 8 characters
\* fails with WeakPassword, the register without a request.
C21_ShortPasswordIsWeak ==
  (last_op.op \in {"login", "register"} /\ Len(last_op.input[1]) < 8) =>
    /\ last_op.outcome = "WeakPassword"
    /\ last_op.op = "register" => last_op.requests = <<>>

\* C21 amended: a register given a password shorter than 8 characters and a matching
\* confirmation issues no request and fails with WeakPassword, leaving the
\* credential and the file as they were; with 8 characters or more it issues its
\* request.  A login checks no length: it issues its request whatever the password,
\* and never fails with WeakPassword.
C21_RegisterRejectsShortPassword ==
  /\ []((last_op.op = "register" /\ last_op.input[1] = last_op.input[2]) =>
          IF Len(last_op.input[1]) < 8
            THEN last_op.requests = <<>> /\ last_op.outcome = "WeakPassword"
            ELSE Len(last_op.requests) = 1 /\ last_op.outcome # "WeakPassword")
  /\ [](last_op.op = "login" =>
          /\ Len(last_op.requests) = 1
          /\ last_op.outcome \in {"success", "rejected", "error"})
  /\ [][(last_op'.outcome = "WeakPassword" /\ last_op' # last_op) =>
          /\ UNCHANGED <<token, user, creds_file>>
          /\ pc' = "choice"]_vars

\* C21 witness: a register with a password of 7 characters, confirmed, failed with
\* WeakPassword without a request.
C21_Witness ==
  /\ last_op = Op("register", <<"seven77", "seven77">>, <<>>, "WeakPassword")
  /\ pc = "choice"

\* The step is a login or register whose request was answered 200.
GrantStep ==
  /\ pc = "choice"
  /\ last_op'.op \in {"login", "register"}
  /\ last_op'.requests # <<>>
  /\ last_op'.requests[1].answer = Http(200)

\* The step is a login or register that failed, with or without a request.
FailedGrantStep ==
  /\ pc = "choice"
  /\ last_op'.op \in {"login", "register"}
  /\ last_op' # last_op
  /\ \/ last_op'.requests = <<>>
     \/ last_op'.requests[1].answer # Http(200)

\* The records of the servers other than this one are the same before and after.
OthersKept ==
  /\ DOMAIN creds_file' \ {api_url} = DOMAIN creds_file \ {api_url}
  /\ \A u \in DOMAIN creds_file \ {api_url} : creds_file'[u] = creds_file[u]

\* C22: after a login or register answered 200 this server's record in the
\* credentials file holds exactly the token and the user of the answer, whatever
\* record was there before; a login or register that was rejected or failed leaves
\* the token, the user and the file as they were.
C22_GrantIsStored ==
  /\ [][GrantStep =>
          /\ api_url \in DOMAIN creds_file'
          /\ creds_file'[api_url] = [token |-> last_op'.requests[1].reply_token,
                                      user |-> last_op'.requests[1].reply_user]
          /\ token' = last_op'.requests[1].reply_token
          /\ user' = last_op'.requests[1].reply_user]_vars
  /\ [][FailedGrantStep => UNCHANGED <<token, user, creds_file>>]_vars

\* C22 witness: a login answered 200 with t2 and bob while the token t1 was held;
\* the record now holds t2 and bob.
C22_Witness ==
  /\ last_op.op = "login"
  /\ last_op.outcome = "success"
  /\ api_url \in DOMAIN creds_file
  /\ creds_file[api_url] = [token |-> "t2", user |-> "bob"]
  /\ token = "t2"

\* C23: whatever the credentials file holds, saving a credential under this
\* server's URL and then loading for that URL gives the token and the user saved.
\* The same holds of the file a successful login or register has written.
C23_SaveThenLoad ==
  /\ [](\A grant \in Grants :
          LET saved == With(creds_file, api_url, grant.token, grant.user)
          IN  /\ LoadedToken(saved) = grant.token
              /\ LoadedUser(saved) = grant.user)
  /\ [][GrantStep =>
          /\ LoadedToken(creds_file') = last_op'.requests[1].reply_token
          /\ LoadedUser(creds_file') = last_op'.requests[1].reply_user]_vars

\* C23 witness: a file that holds another credential for this server and a record
\* of the other server, so that a save has something to overwrite and to keep.
C23_Witness ==
  /\ DOMAIN creds_file = {api_url, other_url}
  /\ creds_file[api_url].token = "t2"
  /\ creds_file[other_url].token = "t2"
  /\ last_op.op = "register"
  /\ last_op.outcome = "success"

\* C24: the credentials file holds one record (a token and a user) for each server
\* URL in it, and every step that writes the file for this server (a save or an
\* invalidation) leaves the records of every other server as they were.
C24_OneRecordPerServer ==
  /\ [](\A u \in DOMAIN creds_file :
          creds_file[u] \in [token : Tokens, user : Users])
  /\ [](DOMAIN creds_file \subseteq {api_url, other_url})
  /\ [][OthersKept]_vars

\* C24 witness: this server's record was saved into a file that held the other
\* server's record, which is still there.
C24_Witness ==
  /\ last_op.op = "login"
  /\ last_op.outcome = "success"
  /\ DOMAIN creds_file = {api_url, other_url}
  /\ creds_file[api_url] = [token |-> "t1", user |-> "alice"]
  /\ creds_file[other_url] = [token |-> "t2", user |-> "bob"]

\* The step invalidates the credential: a 401 on a send, a stored token rejected
\* by the validation, or /logout.
InvalidateStep ==
  \/ result # "auth_expired" /\ result' = "auth_expired"
  \/ ended # "logout" /\ ended' = "logout"
  \/ /\ pc = "authenticate"
     /\ last_op'.requests # <<>>
     /\ last_op'.requests[1].answer.kind = "http"
     /\ last_op'.requests[1].answer.status # 200

\* C25: a step that invalidates the credential leaves the token and the user empty
\* and the credentials file without a record for this server, the records of all
\* other servers being as they were.
C25_InvalidateFrame ==
  [][InvalidateStep =>
       /\ token' = None
       /\ user' = None
       /\ api_url \notin DOMAIN creds_file'
       /\ OthersKept]_vars

\* C25 witness: /logout removed this server's record and kept the other server's.
C25_Witness ==
  /\ ended = "logout"
  /\ token = None
  /\ user = None
  /\ DOMAIN creds_file = {other_url}
  /\ creds_file[other_url] = [token |-> "t2", user |-> "bob"]

\* The name with ".yaml" appended if it does not end in it.
YamlAppended(name) ==
  IF name.exts # <<>> /\ name.exts[Len(name.exts)] = ".yaml"
    THEN name
    ELSE [stem |-> name.stem, exts |-> name.exts \o <<".yaml">>]

\* The name without any ".yaml" in it.
Stripped(name) ==
  [stem |-> name.stem, exts |-> SelectSeq(name.exts, LAMBDA e : e # ".yaml")]

\* verify_agent has just run and its catalog request was answered with a catalog.
VerifiedAgainstCatalog ==
  /\ last_op.op = "verify_agent"
  /\ Passed(last_op.requests[1].answer)

\* The catalog the server answered verify_agent's request with.
TheCatalog == last_op.requests[1].reply_agents

\* C26 as claimed: verify_agent succeeds exactly when the client's agent name, with
\* ".yaml" appended if absent, is in the catalog, and when it is not, the names it
\* reports are those of the catalog.
C26_SucceedsExactlyWhenListed ==
  VerifiedAgainstCatalog =>
    LET listed == InCatalog(YamlAppended(SentAgent), TheCatalog)
    IN  /\ last_op.outcome = "found" <=> listed
        /\ ~listed => last_op.shown = TheCatalog

\* C26 amended: AuthAgentChat, its catalog request answered with a catalog, finds
\* the agent exactly when its name with ".yaml" appended if absent is in the
\* catalog, and otherwise reports every name of that catalog; when the request
\* fails it fails and reports no name.  CagentChatClient finds the agent exactly
\* when its name equals a catalog name once every ".yaml" is removed from both (a
\* failed request counting as an empty catalog), and otherwise reports the names
\* of a second catalog request, none when that one fails.  A verify_agent that
\* finds the agent goes on to create_session; any other ends the run.
C26_VerifyAgent ==
  /\ []((last_op.op = "verify_agent" /\ client = AuthAgentChat) =>
          IF Passed(last_op.requests[1].answer)
            THEN LET listed == InCatalog(YamlAppended(agent_yaml), TheCatalog)
                 IN  /\ last_op.outcome = "found" <=> listed
                     /\ ~listed => last_op.shown = TheCatalog
            ELSE last_op.outcome = "error" /\ last_op.shown = <<>>)
  /\ []((last_op.op = "verify_agent" /\ client = CagentChatClient) =>
          LET catalog == IF Passed(last_op.requests[1].answer) THEN TheCatalog ELSE <<>>
              listed  == \E i \in 1..Len(catalog) : Stripped(catalog[i]) = Stripped(agent_arg)
          IN  /\ last_op.outcome = "found" <=> listed
              /\ ~listed =>
                   /\ Len(last_op.requests) = 2
                   /\ last_op.shown = IF Passed(last_op.requests[2].answer)
                                         THEN last_op.requests[2].reply_agents
                                         ELSE <<>>)
  /\ [](last_op.op = "verify_agent" =>
          IF last_op.outcome = "found"
            THEN pc = "create_session" /\ ended = ""
            ELSE pc = "done" /\ ended = "no_agent")

\* C26 witness: AuthAgentChat started on "pirate" found it in a catalog that holds
\* "pirate.yaml".
C26_Witness ==
  /\ client = AuthAgentChat
  /\ agent_arg = Name("pirate", <<>>)
  /\ last_op.op = "verify_agent"
  /\ last_op.outcome = "found"
  /\ TheCatalog = <<Name("pirate", <<".yaml">>)>>
  /\ pc = "create_session"

\* C26, the other case: the agent is not in the catalog and its names are reported.
C26_WitnessNotFound ==
  /\ client = AuthAgentChat
  /\ last_op.op = "verify_agent"
  /\ last_op.outcome = "not_found"
  /\ last_op.shown = <<Name("haiku", <<".yaml">>), Name("basic_agent", <<".yaml">>)>>
  /\ ended = "no_agent"

\* The name the client looked up in the catalog.
CheckedName == IF client = AuthAgentChat THEN AgentCheck(agent_yaml) ELSE agent_name

\* C27: whatever the agent argument (".yaml", ".yml" or no extension), the agent
\* name in the path of every message request ends in ".yaml" and is the name that
\* was looked up in the catalog.
C27_SentNameIsTheCheckedYaml ==
  \A i \in 1..Len(attempts) :
    /\ attempts[i].agent.exts # <<>>
    /\ Last(attempts[i].agent.exts) = ".yaml"
    /\ attempts[i].agent = CheckedName

\* C27 holds of AuthAgentChat for the arguments that do not end in ".yml".
C27_HoldsButForYml ==
  (client = AuthAgentChat /\ ~EndsWith(agent_arg, ".yml")) => C27_SentNameIsTheCheckedYaml

\* C27, the failing run: AuthAgentChat started on "pirate.yml" found
\* "pirate.yml.yaml" in the catalog and sent its message to "pirate.yml".
C27_WitnessYml ==
  /\ client = AuthAgentChat
  /\ agent_arg = Name("pirate", <<".yml">>)
  /\ attempts # <<>>
  /\ attempts[1].agent = Name("pirate", <<".yml">>)
  /\ CheckedName = Name("pirate", <<".yml", ".yaml">>)

\* The answer is an HTTP answer that is neither a 4xx nor a 5xx.
NotAnError(answer) == answer.kind = "http" /\ answer.status < 400

\* The steps that come before the chat.
StartUp == {"main", "authenticate", "choice", "verify_agent", "create_session"}

\* C28: no message request is issued before the agent was found in the catalog and
\* a session id was stored by a create_session that succeeded, nor, in AuthAgentChat
\* when authentication is required and not skipped, before authenticate succeeded;
\* a run in which one of these steps fails ends there with no session id, and
\* without a session id no message request is ever issued.
C28_NoSendBeforeStartUp ==
  /\ [](pc \in StartUp => attempts = <<>> /\ session_id = None)
  /\ [](session_id = None => attempts = <<>> /\ pc \notin {"request", "stream"})
  /\ [](ended \in {"auth_failed", "no_agent", "no_session"} =>
          pc = "done" /\ session_id = None /\ attempts = <<>>)
  /\ [][(pc' = "verify_agent" /\ pc # "verify_agent") =>
          \/ pc = "main" /\ (client = CagentChatClient \/ no_auth \/ ~auth_enabled')
          \/ /\ pc \in {"authenticate", "choice"}
             /\ client = AuthAgentChat /\ auth_enabled /\ ~no_auth
             /\ last_op'.outcome = "success"
             /\ token' # None]_vars
  /\ [][(pc' = "create_session" /\ pc # "create_session") =>
          /\ pc = "verify_agent"
          /\ last_op'.op = "verify_agent"
          /\ last_op'.outcome = "found"
          /\ NotAnError(last_op'.requests[1].answer)]_vars
  /\ [][session_id' # session_id =>
          /\ pc = "create_session"
          /\ session_id = None
          /\ last_op'.op = "create_session"
          /\ last_op'.outcome = "created"
          /\ NotAnError(last_op'.requests[1].answer)
          /\ session_id' = last_op'.requests[1].reply_id
          /\ session_id' # None]_vars
  /\ [][(attempts' # attempts /\ attempts' # <<>>) =>
          session_id # None /\ session_id' = session_id]_vars

\* C28 witness: AuthAgentChat, authentication required and not skipped, has issued
\* a message request in the session create_session stored.
C28_Witness ==
  /\ client = AuthAgentChat
  /\ auth_enabled
  /\ ~no_auth
  /\ session_id = "s1"
  /\ attempts # <<>>
  /\ attempts[1].auth = Headers("t1")

\* C28, the failing runs: a run ended at verify_agent or create_session.
C28_WitnessFailed ==
  /\ ended \in {"no_agent", "no_session"}
  /\ client = CagentChatClient
  /\ last_op.outcome \in {"not_found", "failed"}

\* create_session was the latest operation before the chat; its request.
SessionAnswer == last_op.requests[1].answer

\* The run ended at create_session: no session id, no message request.
EndedWithoutSession ==
  /\ last_op.outcome = "failed"
  /\ session_id = None
  /\ pc = "done"
  /\ ended \in {"no_session", "crashed"}
  /\ attempts = <<>>

\* C29: create_session stores the id of a 2xx answer as the session id; after any
\* answer that is not a 2xx, and after a transport error, it fails, the session id
\* stays unset and the run ends without a message request.
C29_CreateSession ==
  last_op.op = "create_session" =>
    IF SessionAnswer.kind = "http" /\ SessionAnswer.status \in 200..299
      THEN last_op.requests[1].reply_id # None =>
             session_id = last_op.requests[1].reply_id /\ last_op.outcome = "created"
      ELSE EndedWithoutSession

\* C29 holds but for the statuses below 400 that are not 2xx: after a 4xx, a 5xx
\* or a transport error create_session fails and the run ends without a session.
C29_HoldsOfErrors ==
  (last_op.op = "create_session" /\ ~NotAnError(SessionAnswer)) => EndedWithoutSession

\* C29, the failing run: the session request was answered 304 with an id in its
\* body, the id was stored and a message request was issued in that session.
C29_WitnessNotModified ==
  /\ last_op.op = "create_session"
  /\ SessionAnswer = Http(304)
  /\ session_id = "s1"
  /\ attempts # <<>>

\* The step is a fetch of the session history or summary, or the display of the
\* local history.
FetchStep ==
  /\ last_op'.op \in {"history", "summary"}
  /\ last_op' # last_op

\* C30: fetching the session summary or history changes neither the session id, nor
\* the token and the user in memory, nor the credentials file, nor the local message
\* history, and whatever its answer the loop goes on: the client is at its prompt
\* again and the process has not ended.
C30_FetchChangesNothing ==
  [][FetchStep =>
       /\ UNCHANGED <<session_id, token, user, creds_file, messages_history>>
       /\ pc = "prompt"
       /\ pc' = "prompt"
       /\ ended' = ""]_vars

\* C30 witness: the summary request was answered 401 while a token was held; the
\* token is still held and the next message is on its way.
C30_Witness ==
  /\ last_op.op = "summary"
  /\ last_op.requests[1].answer = Http(401)
  /\ last_op.requests[1].auth = Headers("t1")
  /\ token = "t1"
  /\ api_url \in DOMAIN creds_file
  /\ session_id = "s1"
  /\ pc = "request"

\* C30, the second client: its history was shown after an exchange and is as it was.
C30_WitnessHistory ==
  /\ client = CagentChatClient
  /\ last_op.op = "history"
  /\ messages_history = <<Entry("user", "m"), Entry("assistant", "a")>>
  /\ pc = "prompt"

\* C37: a send_message that fails with an HTTP error status other than 401, with a
\* transport error that is not a timeout, or by running out of timeout retries
\* leaves the token, the user, the credentials file and the session id as they
\* were; while a send is under way the credentials change only on a 401.
C37_OnlyUnauthorizedClears ==
  /\ [][(result = "" /\ result' \in {"http_error", "send_error", "timed_out"}) =>
          UNCHANGED <<token, user, creds_file, session_id>>]_vars
  /\ [][(pc \in {"request", "streaming"}
            /\ <<token, user, creds_file, session_id>>' # <<token, user, creds_file, session_id>>) =>
          /\ result' = "auth_expired"
          /\ Last(attempts').kind = "http"
          /\ Last(attempts').status = 401]_vars
  /\ []((client = AuthAgentChat /\ result \in {"http_error", "send_error", "timed_out"}) =>
          \A i \in 1..Len(attempts) : ~(attempts[i].kind = "http" /\ attempts[i].status = 401))

\* C37 witness: a request of AuthAgentChat that carried the token was answered 500
\* after a timeout; the token, the record and the session are still there.
C37_Witness ==
  /\ client = AuthAgentChat
  /\ result = "http_error"
  /\ Len(attempts) = 2
  /\ attempts[2].status = 500
  /\ attempts[2].auth = Headers("t1")
  /\ token = "t1"
  /\ user = "alice"
  /\ api_url \in DOMAIN creds_file
  /\ session_id = "s1"

\* C37, the other failures: the retries ran out; the connection failed.
C37_WitnessTimedOut ==
  /\ result = "timed_out"
  /\ Len(attempts) = max_retries
  /\ token = "t2"
  /\ api_url \in DOMAIN creds_file

\* The validation request of authenticate got no HTTP answer.
ValidationUnanswered ==
  /\ last_op.op = "authenticate"
  /\ last_op.requests # <<>>
  /\ TheRequest.answer.kind # "http"

\* C38: when the validation request for a stored token fails without an HTTP
\* answer, authenticate neither succeeds nor invalidates: the token, the user and
\* the credentials file are as they were and the choice loop starts.
C38_UnansweredValidation ==
  /\ [](ValidationUnanswered =>
          /\ pc = "choice"
          /\ last_op.outcome = "choice"
          /\ token # None
          /\ TheRequest.auth = Headers(token)
          /\ api_url \in DOMAIN creds_file
          /\ creds_file[api_url].token = token)
  /\ [][(pc = "authenticate" /\ ValidationUnanswered') =>
          UNCHANGED <<token, user, creds_file>>]_vars

\* C38 witness: the validation of the stored token t1 timed out; the choice loop
\* starts with t1 still in memory and in the file.
C38_Witness ==
  /\ ValidationUnanswered
  /\ TheRequest.answer = Timeout
  /\ pc = "choice"
  /\ token = "t1"
  /\ user = "alice"
  /\ creds_file[api_url] = [token |-> "t1", user |-> "alice"]

\* A stream_stopped event is among the lines this send has consumed.
StoppedSeen == \E i \in 1..pos : IsStreamStopped(emitted[i])

\* The step consumes the next line of the body.
ConsumeStep == pc = "streaming" /\ pos' = pos + 1

\* C39: in both clients a stream_stopped event does not end the dispatch: the loop
\* goes on after it, and an agent_choice that comes after it has its text appended
\* and a token_usage that comes after it is recorded as the usage, until the
\* transport closes.
C39_DispatchGoesOnAfterStreamStopped ==
  /\ [][(ConsumeStep /\ IsStreamStopped(emitted[pos + 1])) =>
          /\ pc' = "streaming"
          /\ result' = ""
          /\ UNCHANGED <<full_response, token_usage>>]_vars
  /\ [][(ConsumeStep /\ StoppedSeen /\ IsAgentChoice(emitted[pos + 1])
                     /\ emitted[pos + 1].content # "") =>
          /\ full_response' = Append(full_response, emitted[pos + 1].content)
          /\ pc' = "streaming"]_vars
  /\ [][(ConsumeStep /\ StoppedSeen /\ IsTokenUsage(emitted[pos + 1])) =>
          /\ token_usage' = emitted[pos + 1].usage
          /\ pc' = "streaming"]_vars

\* C39 witness: a body of stream_stopped, a text and a usage was read to its close;
\* the text and the usage that came after stream_stopped are in the result.
C39_Witness ==
  /\ result = "completed"
  /\ emitted = <<Event("stream_stopped"), AgentChoice("a"), TokenUsage("u1")>>
  /\ full_response = <<"a">>
  /\ token_usage = "u1"

\* How many entries of a history have the role.
CountRole(history, role) == Len(SelectSeq(history, LAMBDA e : e.role = role))

\* A send of CagentChatClient ends with this step.
BasicSendEnds == client = CagentChatClient /\ result = "" /\ result' # ""

\* C40: in CagentChatClient every assistant entry of messages_history comes right
\* after a user entry and holds the non-empty text of its send, all parts joined;
\* a send puts its user entry first, and when it fails, meets an error event or
\* ends with an empty text it adds no assistant entry; so there are never more
\* assistant entries than user entries.
C40_HistoryPairs ==
  /\ [](\A i \in 1..Len(messages_history) :
          /\ messages_history[i].role \in {"user", "assistant"}
          /\ messages_history[i].role = "assistant" =>
               /\ i > 1
               /\ messages_history[i - 1].role = "user"
               /\ messages_history[i].content # "")
  /\ [](CountRole(messages_history, "assistant") <= CountRole(messages_history, "user"))
  /\ [](client = AuthAgentChat => messages_history = <<>>)
  /\ []((client = CagentChatClient /\ pc \in {"request", "streaming"}) =>
          Last(messages_history).role = "user")
  /\ [][(client = CagentChatClient /\ pc = "prompt" /\ pc' = "request") =>
          messages_history' = Append(messages_history, [role |-> "user", content |-> "m"])]_vars
  /\ [][BasicSendEnds =>
          IF result' = "completed" /\ JoinedText(emitted) # ""
            THEN messages_history' =
                   Append(messages_history,
                          [role |-> "assistant", content |-> JoinedText(emitted)])
            ELSE UNCHANGED messages_history]_vars
  /\ [][(messages_history' # messages_history) =>
          \/ pc = "prompt" /\ pc' = "request"
          \/ BasicSendEnds]_vars

\* C40 witness: the second send of a chat answered in two parts; its entry holds
\* both, after the user entry of that send.
C40_Witness ==
  /\ client = CagentChatClient
  /\ result = "completed"
  /\ Len(messages_history) = 4
  /\ messages_history[3].role = "user"
  /\ messages_history[4] = [role |-> "assistant", content |-> "ab"]

\* C40, the sends that leave no assistant entry: an error event after a text, and
\* a body of empty text.
C40_WitnessNoAnswer ==
  /\ client = CagentChatClient
  /\ \/ result = "error_event" /\ full_response # <<>>
     \/ result = "completed" /\ emitted = <<AgentChoice("")>>
  /\ Len(messages_history) = 3
  /\ messages_history[3].role = "user"

\* s is t or the beginning of t.
IsPrefix(s, t) == Len(s) <= Len(t) /\ SubSeq(t, 1, Len(s)) = s

\* A send is in flight: its request is being made or its body is being read.
InFlight == pc \in {"request", "streaming"}

\* C31: at most one send is in flight for the session at any moment: while a send
\* is making its request or reading its body, no other send starts and no input is
\* read (the requests and the body of the send in flight only grow, the history and
\* the commands' record are not touched), and a send starts only where none is in
\* flight: at the prompt, or after create_session for the prompt of the command line.
C31_OneSendAtATime ==
  /\ [][InFlight =>
          /\ IsPrefix(attempts, attempts')
          /\ IsPrefix(emitted, emitted')
          /\ pos <= pos'
          /\ caller' = caller
          /\ last_op' = last_op
          /\ session_id' = session_id
          /\ pc' = "request" => pc = "request"
          /\ pc = "request" => messages_history' = messages_history]_vars
  /\ [][(pc' = "request" /\ pc # "request") =>
          /\ pc \in {"prompt", "create_session"}
          /\ attempts' = <<>>
          /\ emitted' = <<>>
          /\ result' = ""]_vars
  /\ [](InFlight => result = "" /\ ended = "")

\* C31 witness: the second send of a chat is reading its body after the first has
\* returned with its answer.
C31_Witness ==
  /\ client = CagentChatClient
  /\ pc = "streaming"
  /\ Len(messages_history) = 3
  /\ messages_history[2].role = "assistant"
  /\ messages_history[3].role = "user"
  /\ Len(attempts) = 1
  /\ pos = 1

\* A transport failure ends the send in this step: the stream was being consumed
\* and the send ends as raised (AuthAgentChat) or as a send error (CagentChatClient).
StreamFailureEndsSend ==
  /\ pc = "streaming"
  /\ transport = "broken"
  /\ result' \in {"raised", "send_error"}

\* What C35 promises of such a step: no further request, the process is back at
\* the prompt, and session id and credentials are as they were.
LoopKeepsRunning ==
  /\ pc' = "prompt"
  /\ ended' = ""
  /\ attempts' = attempts
  /\ UNCHANGED <<session_id, token, user, creds_file>>

\* C35: a transport failure raised while the response stream is consumed is
\* never retried and ends only that send; after every send of the interactive
\* chat, the initial command-line prompt included, the loop keeps running with
\* session id and credentials unchanged.
C35_StreamFailureEndsOnlyThatSend ==
  [][StreamFailureEndsSend => LoopKeepsRunning]_vars

\* C35 holds of every send but AuthAgentChat's initial prompt, and the failure
\* never changes session id or credentials nor causes another request.
C35_HoldsButForInitialPrompt ==
  /\ [][(StreamFailureEndsSend /\ ~(client = AuthAgentChat /\ caller = "initial"))
          => LoopKeepsRunning]_vars
  /\ [][StreamFailureEndsSend =>
          /\ attempts' = attempts
          /\ UNCHANGED <<session_id, token, user, creds_file>>]_vars

\* C35, the failing run: the stream of AuthAgentChat's initial prompt broke and
\* the process ended instead of reaching the prompt.
C35_WitnessInitialPrompt ==
  /\ client = AuthAgentChat
  /\ caller = "initial"
  /\ result = "raised"
  /\ transport = "broken"
  /\ Len(attempts) >= 1
  /\ Last(attempts).status = 200
  /\ pc = "done"
  /\ ended = "crashed"

\* C35, a run where it holds: the stream of a send typed at the prompt broke and
\* AuthAgentChat is back at the prompt.
C35_WitnessLoop ==
  /\ client = AuthAgentChat
  /\ caller = "loop"
  /\ result = "raised"
  /\ transport = "broken"
  /\ pc = "prompt"
  /\ ended = ""

\* C32: a user interrupt arriving while a send is waiting or streaming unwinds
\* cleanly: the interactive loop ends, and the credentials file, the credential
\* in memory and the session id are the same as before the interrupt.
C32_InterruptUnwindsCleanly ==
  /\ [][(result # "interrupted" /\ result' = "interrupted") =>
          /\ pc \in {"request", "streaming"}
          /\ pc' = "done"
          /\ ended' \in {"interrupted", "keyboard_interrupt"}
          /\ UNCHANGED <<creds_file, token, user, session_id>>]_vars
  /\ [][result = "interrupted" => UNCHANGED <<pc, ended, creds_file, token, user, session_id>>]_vars

\* C32 witness: AuthAgentChat, holding a stored credential and a session, was
\* interrupted while it read the stream of a send.
C32_Witness ==
  /\ client = AuthAgentChat
  /\ result = "interrupted"
  /\ pc = "done"
  /\ transport # "none"
  /\ token # None
  /\ api_url \in DOMAIN creds_file
  /\ session_id # None

\* C32 witness: CagentChatClient was interrupted while it waited for the answer
\* to its request.
C32_WitnessWaiting ==
  /\ client = CagentChatClient
  /\ result = "interrupted"
  /\ ended = "interrupted"
  /\ attempts = <<>>
  /\ session_id # None

\* The process logs out in this step, by /logout or by --logout.
LogoutStep ==
  /\ ended = ""
  /\ ended' \in {"logout", "logout_flag"}

\* C36: logging out, by the in-session /logout command or by the --logout flag,
\* deletes only the credential record of the server URL in use: the records
\* stored for every other server URL are still in the file afterwards.
C36_LogoutKeepsOtherServers ==
  [][LogoutStep =>
       /\ api_url \notin DOMAIN creds_file'
       /\ OthersKept]_vars

\* C36 holds of /logout; --logout leaves no record of any server.
C36_HoldsOfCommandOnly ==
  /\ [][(LogoutStep /\ ended' = "logout") =>
          /\ api_url \notin DOMAIN creds_file'
          /\ OthersKept]_vars
  /\ [][(LogoutStep /\ ended' = "logout_flag") => creds_file' = <<>>]_vars

\* C36, the failing run: --logout on a file that held a record of another server.
C36_WitnessFlag ==
  /\ ended = "logout_flag"
  /\ pc = "done"
  /\ creds_file = <<>>
  /\ token = None
  /\ last_op = NoOp

\* The Authorization header of a request of a process that holds the token tok:
\* "Bearer <tok>", or no header when it holds none.
BearerOf(tok) == IF tok = None THEN None ELSE "Bearer " \o tok

\* The operations of AuthAgentChat whose requests go to the validation, catalog,
\* session-create and session-summary endpoints.
C34_Ops == {"authenticate", "verify_agent", "create_session", "summary"}

\* C34: every request AuthAgentChat sends to the validation, agent-catalog,
\* session-create, session-summary and message-send endpoints carries
\* "Authorization: Bearer <token>" with the token held in memory when it is
\* sent, and carries no Authorization header exactly when no token is held.
C34_RequestsCarryTheHeldToken ==
  /\ [][(client = AuthAgentChat /\ last_op' # last_op /\ last_op'.op \in C34_Ops) =>
          \A i \in 1..Len(last_op'.requests) :
             /\ last_op'.requests[i].auth = BearerOf(token)
             /\ last_op'.requests[i].auth = None <=> token = None]_vars
  /\ [][(client = AuthAgentChat /\ Len(attempts') = Len(attempts) + 1) =>
          /\ Last(attempts').auth = BearerOf(token)
          /\ Last(attempts').auth = None <=> token = None]_vars

\* C34 witness: a send was answered 401, the token was dropped, and the next
\* message was sent without an Authorization header.
C34_Witness ==
  /\ client = AuthAgentChat
  /\ auth_enabled
  /\ token = None
  /\ expired
  /\ Len(attempts) >= 1
  /\ Last(attempts).auth = None
  /\ Last(attempts).after_expiry

\* C34 witness: the summary was fetched with the token of the stored credential.
C34_WitnessSummary ==
  /\ client = AuthAgentChat
  /\ token = "t1"
  /\ last_op.op = "summary"
  /\ last_op.requests # <<>>
  /\ last_op.requests[1].auth = "Bearer t1"

\* The update of p is in the file f: its record as saved, or no record of its URL.
Applied(p, f) ==
  IF rmw_op[p].op = "save"
    THEN /\ UrlOf(p) \in DOMAIN f
         /\ f[UrlOf(p)] = [token |-> rmw_op[p].token, user |-> UserOf(p)]
    ELSE UrlOf(p) \notin DOMAIN f

\* Both processes have left _save_credentials or _clear_credentials.
BothEnded == \A p \in Procs : rmw_pc[p] \in {"done", "failed"}

\* Both processes read the file before either wrote it: neither has read the
\* other's update.
BothReadFirst ==
  /\ \A p \in Procs : rmw_pc[p] = "done"
  /\ \A p \in Procs : \A q \in Procs \ {p} : ~Applied(p, data[q])

\* C33: two processes that save or clear the record of different server URLs in
\* the same credentials file race: when their read and write steps interleave,
\* the file ends without one process's update. An update is missing at the end
\* only if its process could not read the file or the other process wrote what
\* it had read before the update; and when both read before either wrote, one
\* of the two updates is missing.
C33_LostUpdate ==
  /\ BothEnded =>
       \A p \in Procs :
          \/ Applied(p, creds_file)
          \/ rmw_pc[p] = "failed"
          \/ \E q \in Procs \ {p} : rmw_pc[q] = "done" /\ ~Applied(p, data[q])
  /\ BothReadFirst => \E p \in Procs : ~Applied(p, creds_file)

\* C33 witness: both processes saved, each has written, and the record this
\* process saved is not in the file.
C33_Witness ==
  /\ \A p \in Procs : rmw_op[p].op = "save" /\ rmw_pc[p] = "done"
  /\ ~Applied("this", creds_file)
  /\ Applied("peer", creds_file)

\* C33 witness: this process cleared its record while the peer saved, and the
\* cleared record is back in the file.
C33_WitnessClear ==
  /\ rmw_op["this"].op = "clear"
  /\ rmw_op["peer"].op = "save"
  /\ \A p \in Procs : rmw_pc[p] = "done"
  /\ api_url \in DOMAIN creds_file

====
